------------------------- MODULE SettlementNumbers -------------------------
(***************************************************************************)
(* How create_settlement takes the number of a settlement: MAX(number) + 1 *)
(* without a lock, a flush that the unique constraint may refuse, a commit *)
(* and, after a refusal, the next of three attempts                        *)
(* (services/settlements.py). The INSERT of a number that another open     *)
(* transaction has inserted waits for that transaction to end.             *)
(***************************************************************************)
EXTENDS Integers, FiniteSets

CONSTANTS
    Issuers,     \* requests that create settlements
    MaxBills     \* bound on the settlements ever created

ASSUME NumberAssumption == MaxBills \in Nat \ {0}

VARIABLES
    numbers,     \* numbers of the committed settlements
    issuing      \* what each request is doing

numberVars == <<numbers, issuing>>

(* A mutant: one attempt less. *)
TwoAttempts == 2

Attempts == 3
Resting == [at |-> "rest"]

(* known: settlements there were when the request began; no part of the    *)
(* code, the property below speaks of it.                                  *)
Creation == [at: {"read", "flush", "commit", "raise"}, attempt: 1 .. Attempts,
             number: 0 .. MaxBills + 1, known: 0 .. MaxBills]

NumbersTypeOK ==
    /\ numbers \subseteq 1 .. MaxBills
    /\ issuing \in [Issuers -> Creation \cup {Resting}]

NumbersInit ==
    /\ numbers = {}
    /\ issuing = [i \in Issuers |-> Resting]

-----------------------------------------------------------------------------
(* get_next_settlement_number: COALESCE(MAX(number), 0) + 1 *)
NextNumber == CHOOSE n \in 1 .. MaxBills + 1 :
                 /\ \A m \in numbers : m < n
                 /\ n = 1 \/ n - 1 \in numbers

At(i, where) == issuing[i].at = where
Inserted(n) == \E i \in Issuers : At(i, "commit") /\ issuing[i].number = n

BeginCreation(i) ==
    /\ issuing[i] = Resting
    /\ Cardinality(numbers) < MaxBills
    /\ issuing' = [issuing EXCEPT ![i] =
          [at |-> "read", attempt |-> 1, number |-> 0, known |-> Cardinality(numbers)]]
    /\ UNCHANGED numbers

ReadNumber(i) ==
    /\ At(i, "read")
    /\ NextNumber <= MaxBills
    /\ issuing' = [issuing EXCEPT ![i].at = "flush", ![i].number = NextNumber]
    /\ UNCHANGED numbers

(* The INSERT goes through, or fails on a committed number and the session *)
(* is rolled back.                                                         *)
FlushNumber(i) ==
    /\ At(i, "flush")
    /\ ~Inserted(issuing[i].number)
    /\ issuing' =
          IF issuing[i].number \notin numbers THEN [issuing EXCEPT ![i].at = "commit"]
          ELSE IF issuing[i].attempt = Attempts THEN [issuing EXCEPT ![i].at = "raise"]
          ELSE [issuing EXCEPT ![i].at = "read", ![i].attempt = @ + 1]
    /\ UNCHANGED numbers

CommitNumber(i) ==
    /\ At(i, "commit")
    /\ numbers' = numbers \cup {issuing[i].number}
    /\ issuing' = [issuing EXCEPT ![i] = Resting]

(* The error reaches the caller, or the request dies and is rolled back. *)
EndCreation(i) ==
    /\ issuing[i] # Resting
    /\ issuing' = [issuing EXCEPT ![i] = Resting]
    /\ UNCHANGED numbers

NumbersNext ==
    \E i \in Issuers :
        \/ BeginCreation(i)
        \/ ReadNumber(i)
        \/ FlushNumber(i)
        \/ CommitNumber(i)
        \/ EndCreation(i)

NumbersSpec == NumbersInit /\ [][NumbersNext]_numberVars

-----------------------------------------------------------------------------
(* A creation fails on the number only when three other settlements were   *)
(* committed while it ran: a competitor that is rolled back never costs it *)
(* an attempt, and one that commits never costs it two.                    *)
RefusedOnlyByThree ==
    \A i \in Issuers :
        At(i, "raise") => Cardinality(numbers) - issuing[i].known >= 3
=============================================================================
