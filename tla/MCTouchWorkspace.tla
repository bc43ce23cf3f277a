-------------------------- MODULE MCTouchWorkspace --------------------------
(***************************************************************************)
(* One factory program, one user program, the pages on which something is  *)
(* decided (a page of the stack is not opened twice), one catalog change   *)
(* and one change by others.                                               *)
(***************************************************************************)
EXTENDS TouchWorkspace

MCPages == {"Home", "ProgramList", "ProgramSummary", "ProgramActions",
            "ProgramEdit", "ValueEdit", "TextEdit",
            "ProgramDeleteConfirmation", "ProgramDeleteFinalConfirmation",
            "Settings", "Service",
            "Pin", "FactoryReset", "HeaderLanguage"}

\* A run is started here or in the browser.
MCBoots == {<<"Ready", "Standby", NoProgram>>,
            <<"ServiceRequired", "SafeBoot", NoProgram>>,
            <<"ServiceRequired", "NoRuntime", NoProgram>>}
=============================================================================
