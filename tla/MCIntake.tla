------------------------------ MODULE MCIntake ------------------------------
(* Instances of Intake and of Metering for TLC: what the behaviour is      *)
(* about is chosen at its start.                                           *)
EXTENDS Intake, Metering, TLC

(* Two runs that overlap; a run and a forwarded mail; the same of one      *)
(* mail, while others enter customers and time stands still; a run and a   *)
(* letter while the owner connects twice; two runs while the owner         *)
(* connects once; and nobody.  Without a forwarded mail the sender is a    *)
(* customer from the start.                                                *)
MCShapes == {<<2, 0, 0, 0, 2, 1>>, <<1, 1, 0, 0, 2, 2>>, <<1, 1, 0, 0, 1, 1>>, <<1, 0, 1, 2, 0, 0>>, <<2, 0, 0, 1, 0, 0>>,
             <<0, 0, 0, 0, 0, 0>>}

MCUsages == {[in |-> 2, out |-> 1, read |-> 0, write |-> 0], [in |-> 0, out |-> 1, read |-> 2, write |-> 1]}
MCPrice == [gemini |-> [in |-> 1, out |-> 4], anthropic |-> [in |-> 4, out |-> 11]]
MCReplies == {[kind |-> "json", template |-> 1, confidence |-> 6, priority |-> 1],
              [kind |-> "json", template |-> 2, confidence |-> 6, priority |-> 3], NoReply}

MCSymmetry == Permutations(Runs) \cup Permutations(Consents) \cup Permutations(Mails)

VARIABLE about

intakeSceneVars == <<vars, meterVars, about>>

IntakeInit ==
  /\ Init /\ MeterInit
  /\ customers # <<>> <=> work[CHOOSE d \in Drops : TRUE].pc = "ended"
  /\ \/ about = (IF Cardinality({m \in Mails : date[m] # Absent}) = 1 THEN "customers" ELSE "mails")
        /\ provider = "gemini" /\ templates = {}
     \/ about = "model" /\ \A w \in Workers : work[w].pc = "ended"

AboutMails(A) ==
  /\ \/ about = "customers" /\ A /\ now' = 0 /\ UNCHANGED failed
     \/ about = "mails" /\ A /\ (work' = work => UNCHANGED customers)
  /\ UNCHANGED <<meterVars, about>>
AboutModel(A) == about = "model" /\ A /\ UNCHANGED <<vars, about>>

IntakeSpec == IntakeInit /\ [][AboutMails(Next) \/ AboutModel(MeterNext)]_intakeSceneVars
=============================================================================
