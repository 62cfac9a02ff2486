-------------------------- MODULE MCScannerWorker --------------------------
EXTENDS ScannerWorker

MCOrder == <<"aide", "yara">>
=============================================================================
