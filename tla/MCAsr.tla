------------------------------- MODULE MCAsr -------------------------------
\* Voice recognition with the bound of Asr.cfg.
EXTENDS Asr

=============================================================================
