------------------------- MODULE WriteLedgerProofs -------------------------
(***************************************************************************)
(* The ledger's promises for any set of writes, of any kinds, and any      *)
(* number of calls.  The inductive invariant says what the memory and the  *)
(* disk know of a write at each place of its call: what arrived is in both, *)
(* and a call past the lookup holds a write that is not there yet or one   *)
(* that Do will refuse to send.                                            *)
(***************************************************************************)
EXTENDS WriteLedger, TLAPS

Kept == {"done", "undone"}

\* Only a live run calls the writer, and an undo works on a done entry.
OwnersApart ==
    /\ ~open => \A w \in Writes : pc[w] = "idle"
    /\ open => undoing = {}
    /\ \A w \in undoing : disk[w] = "done"

\* The memory of a live run is never behind the disk.
MemoryAhead ==
    open => \A w \in Writes :
        /\ disk[w] # None => mem[w] # None
        /\ disk[w] = "done" => mem[w] = "done"
        /\ disk[w] = "undone" => mem[w] = "undone"

\* A call looks up what was tried, and sends what is on disk as sending.
PlacesRight == \A w \in Writes :
    /\ pc[w] = "find" => /\ mem[w] \in {"sending", "failed", "undone"}
                         /\ w \in Marked \cup Blind
    /\ pc[w] = "send" => mem[w] = "sending" /\ disk[w] = "sending"
    /\ pc[w] \in {"sent", "unsent"} => mem[w] = "sending" /\ disk[w] = "sending"

\* A call past the lookup: the write is not there yet, or Do refuses it.
NotThereYet == \A w \in Writes \ Blind :
    /\ pc[w] \in {"gate", "do"} => world[w] = 0 \/ mem[w] \in Kept
    /\ pc[w] = "send" => world[w] = 0

\* What is recorded done is there, unless it is one that may be done unsent.
KeptIsThere == \A w \in Writes \ Blind :
    w \notin MayBeUnsent =>
        /\ disk[w] \in Kept => world[w] > 0
        /\ open /\ mem[w] \in Kept => world[w] > 0
        /\ pc[w] = "sent" => world[w] > 0

IInv ==
    /\ TypeOK
    /\ OwnersApart
    /\ MemoryAhead
    /\ PlacesRight
    /\ SavedBeforeSent
    /\ NotThereYet
    /\ AtMostOnce
    /\ KeptIsThere


(* Every value the ledger's state takes is of its type.                    *)
LEMMA TypeInit == Init => TypeOK
<1> SUFFICES ASSUME Init PROVE TypeOK
    OBVIOUS
<1>1. None \in States /\ None \in Results /\ "idle" \in Places
    BY DEF None, States, Results, Places
<1>2. mem \in [Writes -> States] /\ disk \in [Writes -> States]
    BY <1>1 DEF Init
<1>3. pc \in [Writes -> Places] /\ result \in [Writes -> Results]
    BY <1>1 DEF Init
<1>4. QED
    BY <1>2, <1>3 DEF Init, TypeOK

LEMMA TypeStep == ASSUME TypeOK, [Next]_vars PROVE TypeOK'
<1> USE DEF TypeOK, States, Places, Results, None, Goto, Return, Saved, NotSaved
<1>1. ASSUME NEW w \in Writes, Call(w) PROVE TypeOK'
    BY <1>1 DEF Call
<1>2. ASSUME NEW w \in Writes, FindFails(w) PROVE TypeOK'
    BY <1>2 DEF FindFails
<1>3. ASSUME NEW w \in Writes, FindNothing(w) PROVE TypeOK'
    BY <1>3 DEF FindNothing
<1>4. ASSUME NEW w \in Writes, FindWrite(w) PROVE TypeOK'
    BY <1>4 DEF FindWrite
<1>5. ASSUME NEW w \in Writes, Gate(w) PROVE TypeOK'
    BY <1>5 DEF Gate
<1>6. ASSUME NEW w \in Writes, Begin(w) PROVE TypeOK'
    BY <1>6 DEF Begin
<1>7. ASSUME NEW w \in Writes, Send(w) PROVE TypeOK'
    BY <1>7 DEF Send
<1>8. ASSUME NEW w \in Writes, Answer(w) PROVE TypeOK'
    BY <1>8 DEF Answer
<1>9. ASSUME NEW w \in Writes, UndoRuns(w) PROVE TypeOK'
    BY <1>9 DEF UndoRuns
<1>10. ASSUME NEW w \in Writes, UndoMarks(w) PROVE TypeOK'
    BY <1>10 DEF UndoMarks
<1>11. CASE Open
    BY <1>11 DEF Open
<1>12. CASE Close
    BY <1>12 DEF Close
<1>13. CASE Crash
    BY <1>13 DEF Crash
<1>14. CASE UNCHANGED vars
    BY <1>14 DEF vars
<1>15. QED
    BY <1>1, <1>2, <1>3, <1>4, <1>5, <1>6, <1>7, <1>8, <1>9, <1>10, <1>11, <1>12, <1>13, <1>14 DEF Next

(* The specification keeps the types (WriteLedger.TypeOK).                 *)
THEOREM LedgerTypes == Spec => []TypeOK
BY TypeInit, TypeStep, PTL DEF Spec

(* What the lookup's answer says of a write that was not taken back.       *)
LEMMA LookupTells ==
    ASSUME TypeOK, NEW w \in Writes
    PROVE  /\ FindNothing(w) /\ w \notin Blind => world[w] = 0 \/ mem[w] = "undone"
           /\ FindWrite(w) /\ mem[w] # "undone" => world[w] > 0 \/ w \in MayBeUnsent
<1>1. world[w] \in Nat
    BY DEF TypeOK
<1>2. QED
    BY <1>1 DEF FindNothing, FindWrite, CanMiss, CanFind, MayBeUnsent

LEMMA InvInit == Init => IInv
<1> SUFFICES ASSUME Init PROVE IInv
    OBVIOUS
<1>1. TypeOK
    BY TypeInit
<1>2. QED
    BY <1>1 DEF Init, IInv, OwnersApart, MemoryAhead, PlacesRight, SavedBeforeSent, NotThereYet,
        AtMostOnce, KeptIsThere, Kept, None

LEMMA InvStep == ASSUME IInv, [Next]_vars PROVE IInv'
<1>0. TypeOK'
    BY TypeStep DEF IInv
<1> USE KindsAssumption DEF IInv, TypeOK, OwnersApart, Kept, None, Goto, Return, Saved, NotSaved
<1>1. ASSUME NEW w \in Writes, Call(w) PROVE IInv'
  <2>1. OwnersApart'
      BY <1>1 DEF Call, OwnersApart
  <2>2. MemoryAhead'
      BY <1>1 DEF Call, MemoryAhead, PlacesRight
  <2>3. PlacesRight'
      BY <1>1 DEF Call, PlacesRight
  <2>4. SavedBeforeSent'
      BY <1>1 DEF Call, SavedBeforeSent, MemoryAhead, PlacesRight
  <2>5. NotThereYet'
      BY <1>1 DEF Call, NotThereYet, MemoryAhead, SavedBeforeSent, PlacesRight, AtMostOnce
  <2>6. AtMostOnce'
      BY <1>1 DEF Call, AtMostOnce, NotThereYet
  <2>7. KeptIsThere'
      BY <1>1 DEF Call, KeptIsThere, MemoryAhead, PlacesRight, NotThereYet, SavedBeforeSent
  <2>8. QED
      BY <1>0, <2>1, <2>2, <2>3, <2>4, <2>5, <2>6, <2>7
<1>2. ASSUME NEW w \in Writes, FindFails(w) PROVE IInv'
  <2>1. OwnersApart'
      BY <1>2 DEF FindFails, OwnersApart
  <2>2. MemoryAhead'
      BY <1>2 DEF FindFails, MemoryAhead, PlacesRight
  <2>3. PlacesRight'
      BY <1>2 DEF FindFails, PlacesRight
  <2>4. SavedBeforeSent'
      BY <1>2 DEF FindFails, SavedBeforeSent, MemoryAhead, PlacesRight
  <2>5. NotThereYet'
      BY <1>2 DEF FindFails, NotThereYet, MemoryAhead, SavedBeforeSent, PlacesRight, AtMostOnce
  <2>6. AtMostOnce'
      BY <1>2 DEF FindFails, AtMostOnce, NotThereYet
  <2>7. KeptIsThere'
      BY <1>2 DEF FindFails, KeptIsThere, MemoryAhead, PlacesRight, NotThereYet, SavedBeforeSent
  <2>8. QED
      BY <1>0, <2>1, <2>2, <2>3, <2>4, <2>5, <2>6, <2>7
<1>3. ASSUME NEW w \in Writes, FindNothing(w) PROVE IInv'
  <2>1. OwnersApart'
      BY <1>3 DEF FindNothing, OwnersApart
  <2>2. MemoryAhead'
      BY <1>3 DEF FindNothing, MemoryAhead, PlacesRight
  <2>3. PlacesRight'
      BY <1>3 DEF FindNothing, PlacesRight
  <2>4. SavedBeforeSent'
      BY <1>3 DEF FindNothing, SavedBeforeSent, MemoryAhead, PlacesRight
  <2>5. NotThereYet'
    <3>1. w \notin Blind => world[w] = 0 \/ mem[w] = "undone"
        BY <1>3, LookupTells
    <3>2. QED
        BY <1>3, <3>1 DEF FindNothing, NotThereYet
  <2>6. AtMostOnce'
      BY <1>3 DEF FindNothing, AtMostOnce, NotThereYet
  <2>7. KeptIsThere'
      BY <1>3 DEF FindNothing, KeptIsThere, MemoryAhead, PlacesRight, NotThereYet, SavedBeforeSent
  <2>8. QED
      BY <1>0, <2>1, <2>2, <2>3, <2>4, <2>5, <2>6, <2>7
<1>4. ASSUME NEW w \in Writes, FindWrite(w) PROVE IInv'
  <2>1. OwnersApart'
      BY <1>4 DEF FindWrite, OwnersApart
  <2>2. MemoryAhead'
      BY <1>4 DEF FindWrite, MemoryAhead, PlacesRight
  <2>3. PlacesRight'
      BY <1>4 DEF FindWrite, PlacesRight
  <2>4. SavedBeforeSent'
      BY <1>4 DEF FindWrite, SavedBeforeSent, MemoryAhead, PlacesRight
  <2>5. NotThereYet'
      BY <1>4 DEF FindWrite, NotThereYet, MemoryAhead, SavedBeforeSent, PlacesRight, AtMostOnce
  <2>6. AtMostOnce'
      BY <1>4 DEF FindWrite, AtMostOnce, NotThereYet
  <2>7. KeptIsThere'
    <3>1. mem[w] # "undone" => world[w] > 0 \/ w \in MayBeUnsent
        BY <1>4, LookupTells
    <3>2. QED
        BY <1>4, <3>1 DEF FindWrite, KeptIsThere, MemoryAhead
  <2>8. QED
      BY <1>0, <2>1, <2>2, <2>3, <2>4, <2>5, <2>6, <2>7
<1>5. ASSUME NEW w \in Writes, Gate(w) PROVE IInv'
  <2>1. OwnersApart'
      BY <1>5 DEF Gate, OwnersApart
  <2>2. MemoryAhead'
      BY <1>5 DEF Gate, MemoryAhead, PlacesRight
  <2>3. PlacesRight'
      BY <1>5 DEF Gate, PlacesRight
  <2>4. SavedBeforeSent'
      BY <1>5 DEF Gate, SavedBeforeSent, MemoryAhead, PlacesRight
  <2>5. NotThereYet'
      BY <1>5 DEF Gate, NotThereYet, MemoryAhead, SavedBeforeSent, PlacesRight, AtMostOnce
  <2>6. AtMostOnce'
      BY <1>5 DEF Gate, AtMostOnce, NotThereYet
  <2>7. KeptIsThere'
      BY <1>5 DEF Gate, KeptIsThere, MemoryAhead, PlacesRight, NotThereYet, SavedBeforeSent
  <2>8. QED
      BY <1>0, <2>1, <2>2, <2>3, <2>4, <2>5, <2>6, <2>7
<1>6. ASSUME NEW w \in Writes, Begin(w) PROVE IInv'
  <2>1. OwnersApart'
      BY <1>6 DEF Begin, OwnersApart
  <2>2. MemoryAhead'
      BY <1>6 DEF Begin, MemoryAhead, PlacesRight
  <2>3. PlacesRight'
      BY <1>6 DEF Begin, PlacesRight
  <2>4. SavedBeforeSent'
      BY <1>6 DEF Begin, SavedBeforeSent, MemoryAhead, PlacesRight
  <2>5. NotThereYet'
      BY <1>6 DEF Begin, NotThereYet, MemoryAhead, SavedBeforeSent, PlacesRight, AtMostOnce
  <2>6. AtMostOnce'
      BY <1>6 DEF Begin, AtMostOnce, NotThereYet
  <2>7. KeptIsThere'
      BY <1>6 DEF Begin, KeptIsThere, MemoryAhead, PlacesRight, NotThereYet, SavedBeforeSent
  <2>8. QED
      BY <1>0, <2>1, <2>2, <2>3, <2>4, <2>5, <2>6, <2>7
<1>7. ASSUME NEW w \in Writes, Send(w) PROVE IInv'
  <2>1. OwnersApart'
      BY <1>7 DEF Send, OwnersApart
  <2>2. MemoryAhead'
      BY <1>7 DEF Send, MemoryAhead, PlacesRight
  <2>3. PlacesRight'
      BY <1>7 DEF Send, PlacesRight
  <2>4. SavedBeforeSent'
      BY <1>7 DEF Send, SavedBeforeSent, MemoryAhead, PlacesRight
  <2>5. NotThereYet'
      BY <1>7 DEF Send, NotThereYet, MemoryAhead, SavedBeforeSent, PlacesRight, AtMostOnce
  <2>6. AtMostOnce'
      BY <1>7 DEF Send, AtMostOnce, NotThereYet
  <2>7. KeptIsThere'
    <3>1. Commits \subseteq MayBeUnsent
        BY DEF MayBeUnsent
    <3>2. QED
        BY <1>7, <3>1 DEF Send, KeptIsThere, MemoryAhead, PlacesRight, NotThereYet, SavedBeforeSent
  <2>8. QED
      BY <1>0, <2>1, <2>2, <2>3, <2>4, <2>5, <2>6, <2>7
<1>8. ASSUME NEW w \in Writes, Answer(w) PROVE IInv'
  <2>1. OwnersApart'
      BY <1>8 DEF Answer, OwnersApart
  <2>2. MemoryAhead'
      BY <1>8 DEF Answer, MemoryAhead, PlacesRight
  <2>3. PlacesRight'
      BY <1>8 DEF Answer, PlacesRight
  <2>4. SavedBeforeSent'
      BY <1>8 DEF Answer, SavedBeforeSent, MemoryAhead, PlacesRight
  <2>5. NotThereYet'
      BY <1>8 DEF Answer, NotThereYet, MemoryAhead, SavedBeforeSent, PlacesRight, AtMostOnce
  <2>6. AtMostOnce'
      BY <1>8 DEF Answer, AtMostOnce, NotThereYet
  <2>7. KeptIsThere'
      BY <1>8 DEF Answer, KeptIsThere, MemoryAhead, PlacesRight, NotThereYet, SavedBeforeSent
  <2>8. QED
      BY <1>0, <2>1, <2>2, <2>3, <2>4, <2>5, <2>6, <2>7
<1>9. ASSUME NEW w \in Writes, UndoRuns(w) PROVE IInv'
  <2>1. OwnersApart'
      BY <1>9 DEF UndoRuns, OwnersApart
  <2>2. MemoryAhead'
      BY <1>9 DEF UndoRuns, MemoryAhead, PlacesRight
  <2>3. PlacesRight'
      BY <1>9 DEF UndoRuns, PlacesRight
  <2>4. SavedBeforeSent'
      BY <1>9 DEF UndoRuns, SavedBeforeSent, MemoryAhead, PlacesRight
  <2>5. NotThereYet'
      BY <1>9 DEF UndoRuns, NotThereYet, MemoryAhead, SavedBeforeSent, PlacesRight, AtMostOnce
  <2>6. AtMostOnce'
      BY <1>9 DEF UndoRuns, AtMostOnce, NotThereYet
  <2>7. KeptIsThere'
      BY <1>9 DEF UndoRuns, KeptIsThere, MemoryAhead, PlacesRight, NotThereYet, SavedBeforeSent
  <2>8. QED
      BY <1>0, <2>1, <2>2, <2>3, <2>4, <2>5, <2>6, <2>7
<1>10. ASSUME NEW w \in Writes, UndoMarks(w) PROVE IInv'
  <2>1. OwnersApart'
      BY <1>10 DEF UndoMarks, OwnersApart
  <2>2. MemoryAhead'
      BY <1>10 DEF UndoMarks, MemoryAhead, PlacesRight
  <2>3. PlacesRight'
      BY <1>10 DEF UndoMarks, PlacesRight
  <2>4. SavedBeforeSent'
      BY <1>10 DEF UndoMarks, SavedBeforeSent, MemoryAhead, PlacesRight
  <2>5. NotThereYet'
      BY <1>10 DEF UndoMarks, NotThereYet, MemoryAhead, SavedBeforeSent, PlacesRight, AtMostOnce
  <2>6. AtMostOnce'
      BY <1>10 DEF UndoMarks, AtMostOnce, NotThereYet
  <2>7. KeptIsThere'
      BY <1>10 DEF UndoMarks, KeptIsThere, MemoryAhead, PlacesRight, NotThereYet, SavedBeforeSent
  <2>8. QED
      BY <1>0, <2>1, <2>2, <2>3, <2>4, <2>5, <2>6, <2>7
<1>11. CASE Open
  <2>1. OwnersApart'
      BY <1>11 DEF Open, OwnersApart
  <2>2. MemoryAhead'
      BY <1>11 DEF Open, MemoryAhead, PlacesRight
  <2>3. PlacesRight'
      BY <1>11 DEF Open, PlacesRight
  <2>4. SavedBeforeSent'
      BY <1>11 DEF Open, SavedBeforeSent, MemoryAhead, PlacesRight
  <2>5. NotThereYet'
      BY <1>11 DEF Open, NotThereYet, MemoryAhead, SavedBeforeSent, PlacesRight, AtMostOnce
  <2>6. AtMostOnce'
      BY <1>11 DEF Open, AtMostOnce, NotThereYet
  <2>7. KeptIsThere'
      BY <1>11 DEF Open, KeptIsThere, MemoryAhead, PlacesRight, NotThereYet, SavedBeforeSent
  <2>8. QED
      BY <1>0, <2>1, <2>2, <2>3, <2>4, <2>5, <2>6, <2>7
<1>12. CASE Close
  <2>1. OwnersApart'
      BY <1>12 DEF Close, Quiet, OwnersApart
  <2>2. MemoryAhead'
      BY <1>12 DEF Close, MemoryAhead, PlacesRight
  <2>3. PlacesRight'
      BY <1>12 DEF Close, PlacesRight
  <2>4. SavedBeforeSent'
      BY <1>12 DEF Close, SavedBeforeSent, MemoryAhead, PlacesRight
  <2>5. NotThereYet'
      BY <1>12 DEF Close, NotThereYet, MemoryAhead, SavedBeforeSent, PlacesRight, AtMostOnce
  <2>6. AtMostOnce'
      BY <1>12 DEF Close, AtMostOnce, NotThereYet
  <2>7. KeptIsThere'
      BY <1>12 DEF Close, KeptIsThere, MemoryAhead, PlacesRight, NotThereYet, SavedBeforeSent
  <2>8. QED
      BY <1>0, <2>1, <2>2, <2>3, <2>4, <2>5, <2>6, <2>7
<1>13. CASE Crash
  <2>1. OwnersApart'
      BY <1>13 DEF Crash, OwnersApart
  <2>2. MemoryAhead'
      BY <1>13 DEF Crash, MemoryAhead, PlacesRight
  <2>3. PlacesRight'
      BY <1>13 DEF Crash, PlacesRight
  <2>4. SavedBeforeSent'
      BY <1>13 DEF Crash, SavedBeforeSent, MemoryAhead, PlacesRight
  <2>5. NotThereYet'
      BY <1>13 DEF Crash, NotThereYet, MemoryAhead, SavedBeforeSent, PlacesRight, AtMostOnce
  <2>6. AtMostOnce'
      BY <1>13 DEF Crash, AtMostOnce, NotThereYet
  <2>7. KeptIsThere'
      BY <1>13 DEF Crash, KeptIsThere, MemoryAhead, PlacesRight, NotThereYet, SavedBeforeSent
  <2>8. QED
      BY <1>0, <2>1, <2>2, <2>3, <2>4, <2>5, <2>6, <2>7
<1>14. CASE UNCHANGED vars
    BY <1>14 DEF vars, MemoryAhead, PlacesRight, SavedBeforeSent, NotThereYet, AtMostOnce, KeptIsThere
<1>15. QED
    BY <1>1, <1>2, <1>3, <1>4, <1>5, <1>6, <1>7, <1>8, <1>9, <1>10, <1>11, <1>12, <1>13, <1>14 DEF Next

LEMMA Invariant == Spec => []IInv
BY InvInit, InvStep, PTL DEF Spec

(* At most one arrival of a write that is not blind (AtMostOnce).          *)
THEOREM SentAtMostOnce == Spec => []AtMostOnce
<1>1. IInv => AtMostOnce
    BY DEF IInv
<1>2. QED
    BY <1>1, Invariant, PTL

(* What arrived is on disk (SavedBeforeSent), the blind writes too.        *)
THEOREM NoSaveNoSend == Spec => []SavedBeforeSent
<1>1. IInv => SavedBeforeSent
    BY DEF IInv
<1>2. QED
    BY <1>1, Invariant, PTL

(* A write that was taken back is never sent again, nor its mark lost      *)
(* (UndoneStays): the memory of a live run knows it, and Do refuses it.    *)
THEOREM UndoneForever == Spec => UndoneStays
<1> DEFINE Stays == \A w \in Writes :
                      disk[w] = "undone" => disk'[w] = "undone" /\ world'[w] = world[w]
<1>1. ASSUME IInv, [Next]_vars PROVE [Stays]_vars
  <2> USE DEF IInv, TypeOK, OwnersApart, MemoryAhead, PlacesRight, Goto, Return, Saved, NotSaved
  <2>1. ASSUME NEW w \in Writes, FindWrite(w) PROVE Stays
      BY <1>1, <2>1 DEF FindWrite
  <2>2. ASSUME NEW w \in Writes, Begin(w) PROVE Stays
      BY <1>1, <2>2 DEF Begin
  <2>3. ASSUME NEW w \in Writes, Send(w) PROVE Stays
      BY <1>1, <2>3 DEF Send
  <2>4. ASSUME NEW w \in Writes, Answer(w) PROVE Stays
      BY <1>1, <2>4 DEF Answer
  <2>5. ASSUME NEW w \in Writes, UndoMarks(w) PROVE Stays
      BY <1>1, <2>5 DEF UndoMarks
  <2>6. ASSUME UNCHANGED <<disk, world>> PROVE Stays
      BY <2>6
  <2>7. ASSUME Next PROVE Stays
      BY <2>1, <2>2, <2>3, <2>4, <2>5, <2>6, <2>7
      DEF Next, Call, FindFails, FindNothing, Gate, UndoRuns, Open, Close, Crash
  <2>8. QED
      BY <1>1, <2>7
<1>2. QED
    BY <1>1, Invariant, PTL DEF Spec, UndoneStays

(* Every step of the ledger is a step of the contract or none of its       *)
(* business (KeepsContract): a send is an arrival, and every save records  *)
(* writes that are there.                                                  *)
THEOREM LedgerKeepsContract == Spec => KeepsContract
<1> DEFINE There == {w \in Writes \ Blind : world[w] > 0}
           Known == {w \in Writes \ Blind : disk[w] \in {"done", "undone"}}
<1>1. Init => Contract!ContractInit
    BY DEF Init, Contract!ContractInit, None
<1>2. ASSUME IInv, IInv', [Next]_vars PROVE [Contract!ContractNext]_<<There, Known>>
  <2> USE DEF IInv, TypeOK, OwnersApart, MemoryAhead, PlacesRight, Goto, Return, Saved, NotSaved
  <2>1. ASSUME UNCHANGED world, \A w \in Writes : disk[w] \in Kept => disk'[w] \in Kept,
               NEW K, K = Known'
        PROVE  Contract!Learn(K)
    <3>1. Known' \subseteq There \cup MayBeUnsent
        BY <1>2, <2>1 DEF KeptIsThere, Kept
    <3>2. Known \subseteq Known' /\ There' = There
        BY <2>1 DEF Kept
    <3>3. QED
        BY <2>1, <3>1, <3>2 DEF Contract!Learn
  <2>2. ASSUME UNCHANGED world, \A w \in Writes : disk[w] \in Kept => disk'[w] \in Kept
        PROVE  Contract!ContractNext
    <3>1. PICK K : K = Known'
        OBVIOUS
    <3>2. K \in SUBSET (Writes \ Blind)
        BY <3>1
    <3>3. Contract!Learn(K)
        BY <2>1, <2>2, <3>1
    <3>4. QED
        BY <3>2, <3>3 DEF Contract!ContractNext
  <2>3. ASSUME NEW w \in Writes, Send(w), UNCHANGED world PROVE UNCHANGED <<There, Known>>
      BY <2>3 DEF Send
  <2>4. ASSUME NEW w \in Writes, Send(w), world' = [world EXCEPT ![w] = @ + 1], w \in Blind
        PROVE UNCHANGED <<There, Known>>
      BY <2>4 DEF Send
  <2>5. ASSUME NEW w \in Writes, Send(w), world' = [world EXCEPT ![w] = @ + 1], w \notin Blind
        PROVE Contract!Arrive(w)
    <3>1. world[w] = 0 /\ disk[w] = "sending" /\ world'[w] = 1
        BY <1>2, <2>5 DEF Send, NotThereYet
    <3>2. There' = There \cup {w} /\ Known' = Known
        BY <2>5, <3>1 DEF Send
    <3>3. w \notin There \cup Known
        BY <3>1
    <3>4. QED
        BY <3>2, <3>3 DEF Contract!Arrive
  <2>6. ASSUME NEW w \in Writes, Send(w) PROVE Contract!ContractNext \/ UNCHANGED <<There, Known>>
    <3>1. UNCHANGED world \/ world' = [world EXCEPT ![w] = @ + 1]
        BY <2>6 DEF Send
    <3>2. QED
        BY <2>3, <2>4, <2>5, <2>6, <3>1 DEF Contract!ContractNext
  <2>7. ASSUME NEW w \in Writes, FindWrite(w) PROVE Contract!ContractNext
    <3>1. \A v \in Writes : disk[v] \in Kept => disk'[v] \in Kept
        BY <1>2, <2>7 DEF FindWrite, Kept
    <3>2. QED
        BY <2>2, <2>7, <3>1 DEF FindWrite
  <2>8. ASSUME NEW w \in Writes, Begin(w) PROVE Contract!ContractNext
    <3>1. \A v \in Writes : disk[v] \in Kept => disk'[v] \in Kept
        BY <1>2, <2>8 DEF Begin, Kept
    <3>2. QED
        BY <2>2, <2>8, <3>1 DEF Begin
  <2>9. ASSUME NEW w \in Writes, Answer(w) PROVE Contract!ContractNext
    <3>1. \A v \in Writes : disk[v] \in Kept => disk'[v] \in Kept
        BY <1>2, <2>9 DEF Answer, Kept
    <3>2. QED
        BY <2>2, <2>9, <3>1 DEF Answer
  <2>10. ASSUME NEW w \in Writes, UndoMarks(w) PROVE Contract!ContractNext
    <3>1. \A v \in Writes : disk[v] \in Kept => disk'[v] \in Kept
        BY <1>2, <2>10 DEF UndoMarks, Kept
    <3>2. QED
        BY <2>2, <2>10, <3>1 DEF UndoMarks
  <2>11. ASSUME UNCHANGED <<disk, world>> PROVE UNCHANGED <<There, Known>>
      BY <2>11
  <2>12. CASE Next
      BY <2>6, <2>7, <2>8, <2>9, <2>10, <2>11, <2>12
      DEF Next, Call, FindFails, FindNothing, Gate, UndoRuns, Open, Close, Crash
  <2>13. CASE UNCHANGED vars
      BY <2>11, <2>13 DEF vars
  <2>14. QED
      BY <1>2, <2>12, <2>13
<1>3. QED
    BY <1>1, <1>2, Invariant, PTL
    DEF Spec, KeepsContract, Contract!ContractSpec, Contract!contractVars
=============================================================================
