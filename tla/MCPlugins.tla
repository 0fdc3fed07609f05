------------------------------ MODULE MCPlugins ------------------------------
EXTENDS Plugins
CONSTANTS c1, c2
================================================================================
