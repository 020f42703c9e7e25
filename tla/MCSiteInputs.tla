---------------------------- MODULE MCSiteInputs ----------------------------
\* The instance of SiteInputs that inputs.cfg checks.
EXTENDS SiteInputs

\* Inputs of different kinds meet only in the texts; a pool makes a reading or a
\* rendering raise, which matters most for rules that reach several sites.
MCScenarios ==
    {{"ip", "regen"}, {"ip", "pool"}, {"geo", "regen"}, {"geo", "pool"}, {"waf", "pool"}, {"waf", "crash"},
     {"feed", "regen", "crash"}, {"cert", "save", "regen"}, {"cert", "save", "crash"}}
=============================================================================
