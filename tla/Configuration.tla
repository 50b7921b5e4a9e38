----------------------------- MODULE Configuration -----------------------------
(***************************************************************************)
(* The settings of app/config.py that decide whether the service starts    *)
(* and what it is made of.                                                 *)
(***************************************************************************)
\* "development" stands for every other name.
AppEnvs == {"production", "development"}
SignatureProviders == {"documenso", "fake"}

Settings ==
  [APP_ENV : AppEnvs,
   X402_BYPASS_FOR_LOCAL_DEVELOPMENT : BOOLEAN,
   SIGNATURE_PROVIDER : SignatureProviders]

\* Mutant: only both flags together are refused.
production_safety_of_both(s) ==
  s.APP_ENV = "production" =>
    ~(s.X402_BYPASS_FOR_LOCAL_DEVELOPMENT /\ s.SIGNATURE_PROVIDER = "fake")

\* The process starts.
enforce_production_safety(s) ==
  s.APP_ENV = "production" =>
    ~s.X402_BYPASS_FOR_LOCAL_DEVELOPMENT /\ s.SIGNATURE_PROVIDER # "fake"

================================================================================
