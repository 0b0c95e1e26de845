------------------------------ MODULE MCCommands ----------------------------
(* Commands with a call of the API and a setID of the handler, or with a    *)
(* call and a background reset.                                             *)
EXTENDS Commands, TLC

OneCall == {"api"}
OneReset == {"reset"}
OneEnforcer == {"enforce"}
Cmds == ("api" :> "rstbg" @@ "reset" :> "rstbg" @@ "enforce" :> "setid")
=============================================================================
