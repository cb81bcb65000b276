----------------------------- MODULE MCDemoTask -----------------------------
EXTENDS DemoTask
=============================================================================
