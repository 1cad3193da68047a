---------------------- MODULE MCEventProcessorRefinement ----------------------
EXTENDS EventProcessorRefinement
===============================================================================
