----------------------------- MODULE MCServer -----------------------------
(***************************************************************************)
(* The server next to its operation queue for TLC: how changes in GitLab   *)
(* reach the board, and the account of one user.  In the models they share *)
(* no state, so each behaviour is of one of them and the other stays as it *)
(* begins.                                                                 *)
(***************************************************************************)
EXTENDS BoardIntake, Accounts

VARIABLE panel

serverVars == <<panel, intakeVars, accountVars>>

ServerInit ==
    /\ panel \in {"intake", "accounts"}
    /\ IntakeInit /\ AccountInit
    /\ panel # "intake" => \A i \in Issues : gitlab[i].is = "unborn"

ServerNext ==
    /\ UNCHANGED panel
    /\ \/ panel = "intake" /\ IntakeNext /\ UNCHANGED accountVars
       \/ panel = "accounts" /\ AccountNext /\ UNCHANGED intakeVars

\* Each part is as fair as it is alone, in the behaviours it acts in.
Intake == panel = "intake"
IntakeIsFair ==
    /\ \A kind \in {"delta", "presence", "deep"} : SF_intakeVars(Intake /\ StartRead(kind))
    /\ WF_intakeVars(Intake /\ ReadPage) /\ WF_intakeVars(Intake /\ ApplyRead)
    /\ \A i \in Issues : /\ WF_intakeVars(Intake /\ BecomesVisible(i))
                         /\ WF_intakeVars(Intake /\ CompleteOperation(i))
    /\ \A w \in Workers : WF_intakeVars(/\ Intake
                                        /\ \/ Fetch(w) \/ Reconcile(w) \/ Unmapped(w)
                                           \/ \E n \in DOMAIN inbox : Claim(w, n))
    /\ WF_intakeVars(Intake /\ \E n \in DOMAIN inbox : Expire(n))

AccountsAreFair ==
    /\ WF_accountVars(panel = "accounts" /\ ReadMembers("run"))
    /\ SF_accountVars(panel = "accounts" /\ ReplaceDirectory("run"))

ServerSpec == ServerInit /\ [][ServerNext]_serverVars /\ IntakeIsFair /\ AccountsAreFair
=============================================================================
