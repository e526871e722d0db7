------------------------------ MODULE MCTracer ------------------------------
EXTENDS Tracer
=============================================================================
