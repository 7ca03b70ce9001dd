--------------------------- MODULE OnceContract ---------------------------
(***************************************************************************)
(* What the write ledger promises about one run's outside writes: a write  *)
(* reaches the other side at most once, and but for named exceptions it is *)
(* recorded done only when it is there.  Nothing is said of saved files,   *)
(* lookups, crashes or retries; WriteLedger is shown to implement this.    *)
(***************************************************************************)
CONSTANTS Writes,     \* the writes the promise is about
          MayBeUnsent \* those that can be recorded done and not be there

VARIABLES there, \* the writes that reached the other side
          known  \* the writes recorded as done

contractVars == <<there, known>>

ContractInit == there = {} /\ known = {}

\* The write reaches the other side; nobody need have heard of it yet.
Arrive(w) ==
    /\ w \notin there \cup known
    /\ there' = there \cup {w}
    /\ UNCHANGED known

\* Writes are recorded as done: one save records all that memory knows of.
Learn(S) ==
    /\ S \subseteq there \cup MayBeUnsent
    /\ known' = known \cup S
    /\ UNCHANGED there

ContractNext == (\E w \in Writes : Arrive(w)) \/ (\E S \in SUBSET Writes : Learn(S))

ContractSpec == ContractInit /\ [][ContractNext]_contractVars
=============================================================================
