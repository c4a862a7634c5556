--------------------------- MODULE DatabaseProofs ---------------------------
(***************************************************************************)
(* Proofs about the database: how it is brought up to date and what its    *)
(* tables then hold.                                                       *)
(*                                                                         *)
(* Startup, for any replicas, images, servers and number of starts.  Two   *)
(* inductive invariants: MigratedInv, which needs no lock, since the       *)
(* ledger only grows and its primary key refuses a second application; and *)
(* SerialInv, which is about the lock.                                     *)
(*                                                                         *)
(* Store implements Catalogue, for any workers, items, batches, labels and *)
(* bounds.  The invariant: every item has its signature, and a deletion    *)
(* has marked the signatures of no item it will not delete, which the row  *)
(* locks alone would not give, since it selects its items twice.           *)
(***************************************************************************)
EXTENDS Startup, Store, FiniteSetTheorems, TLAPS

-----------------------------------------------------------------------------
(* Startup *)

Places == {"down", "connect", "probe", "createLock", "create", "check", "lock",
           "schema", "verify", "apply", "run", "up", "exit"}

(* What is left to do for a replica that applies migrations. *)
Left(r) == pending[r] \cup (IF place[r] = "run" THEN {file[r]} ELSE {})

PlaceInv ==
    /\ ledger \subseteq Files /\ ran \in [Files -> [1..Statements -> Nat]]
    /\ place \in [Replicas -> Places]
    /\ image \in [Replicas -> SUBSET Files]
    /\ pending \in [Replicas -> SUBSET Files]
    /\ file \in [Replicas -> Files \cup {NoFile}]
    /\ stmt \in [Replicas -> 0..Statements]
    /\ \A r \in Replicas :
          /\ image[r] \in Images \cup {{}}
          /\ pending[r] \subseteq image[r]
          /\ place[r] \notin {"apply", "run"} => pending[r] = {}
          /\ place[r] = "run" => file[r] \in image[r]
          /\ place[r] # "run" => stmt[r] = 0
          /\ place[r] = "run" /\ file[r].plain => stmt[r] = 0

(* Recorded files have run, a transactional one exactly once. *)
LedgerInv ==
    \A f \in Files :
        /\ f \in ledger => \A i \in 1..Statements : ran[f][i] > 0
        /\ f \in ledger /\ f.plain => ran[f] = Once
        /\ f \notin ledger /\ f.plain => ran[f] = NotRun

(* Every file of the image is recorded or still to be applied; the         *)
(* statements done of a no-transaction file have run.                      *)
ProgressInv ==
    \A r \in Replicas :
        /\ place[r] \in {"apply", "run", "up"} => image[r] \subseteq ledger \cup Left(r)
        /\ place[r] = "run" => \A i \in 1..stmt[r] : ran[file[r]][i] > 0

MigratedInv == PlaceInv /\ LedgerInv /\ ProgressInv

LEMMA FileFacts ==
    /\ Files \subseteq [v : Nat, sum : Nat, plain : BOOLEAN]
    /\ \A f, g \in Files : f.v = g.v /\ f.sum = g.sum => f = g
    /\ \A m \in Images : \A f, g \in m : f.v = g.v => f = g
    /\ NoFile \in [v : Nat, sum : Nat, plain : BOOLEAN]
    /\ Statements \in Nat \ {0}
BY StartupAssumption DEF Files, NoFile

LEMMA RanTyped ==
    ASSUME ran \in [Files -> [1..Statements -> Nat]], NEW g \in Files
    PROVE  /\ ran[g] \in [1..Statements -> Nat]
           /\ \A i \in 1..Statements : ran[g][i] \in Nat
<1>1. ran[g] \in [1..Statements -> Nat]
  OBVIOUS
<1> DEFINE h == ran[g]
<1>2. h \in [1..Statements -> Nat]
  BY <1>1
<1> HIDE DEF h
<1>3. \A i \in 1..Statements : h[i] \in Nat
  BY <1>2
<1> QED
  BY <1>1, <1>3 DEF h

LEMMA InitMigrated == StartupInit => MigratedInv
BY FileFacts DEF StartupInit, MigratedInv, PlaceInv, LedgerInv, ProgressInv, Left, NotRun, Places

(* A step outside the migrations. *)
LEMMA QuietStart ==
    ASSUME MigratedInv, NEW r \in Replicas, NEW p \in Places \ {"apply", "run", "up"},
           UNCHANGED <<ledger, ran, pending, file, stmt>>,
           place[r] \notin {"apply", "run"}, place' = [place EXCEPT ![r] = p],
           image' = image \/ \E m \in Images : image' = [image EXCEPT ![r] = m]
    PROVE  MigratedInv'
<1>1. LedgerInv'
  BY DEF MigratedInv, LedgerInv
<1>2. \A m \in Images : m \subseteq Files
  BY DEF Files
<1>3. /\ image' \in [Replicas -> SUBSET Files]
      /\ image'[r] \in Images \cup {{}}
      /\ \A q \in Replicas \ {r} : image'[q] = image[q] /\ place'[q] = place[q]
      /\ place'[r] = p /\ place' \in [Replicas -> Places]
  BY <1>2 DEF MigratedInv, PlaceInv
<1>4. PlaceInv'
  BY <1>3 DEF MigratedInv, PlaceInv
<1>5. ProgressInv'
  BY <1>3 DEF MigratedInv, PlaceInv, ProgressInv, Left
<1> QED
  BY <1>1, <1>4, <1>5 DEF MigratedInv

(* A process that ends. *)
LEMMA LeavingStep ==
    ASSUME MigratedInv, NEW r \in Replicas, NEW p \in {"down", "exit"}, NEW c, Leaves(r, p, c)
    PROVE  MigratedInv'
<1>1. LedgerInv'
  BY DEF MigratedInv, LedgerInv, Leaves, server
<1>2. /\ \A q \in Replicas \ {r} : /\ place'[q] = place[q] /\ pending'[q] = pending[q]
                                   /\ file'[q] = file[q] /\ stmt'[q] = stmt[q]
      /\ place'[r] = p /\ pending'[r] = {} /\ stmt'[r] = 0
      /\ UNCHANGED <<ledger, ran, image>>
  BY DEF MigratedInv, PlaceInv, Leaves, server, To
<1>3. PlaceInv'
  BY <1>2, FileFacts DEF MigratedInv, PlaceInv, Leaves, To, Places
<1>4. ProgressInv'
  BY <1>2 DEF MigratedInv, PlaceInv, ProgressInv, Left
<1> QED
  BY <1>1, <1>3, <1>4 DEF MigratedInv

LEMMA VerifyStep ==
    ASSUME MigratedInv, NEW r \in Replicas, Verify(r)
    PROVE  MigratedInv'
<1>1. CASE ~ Verified(r)
  BY <1>1, LeavingStep DEF Verify
<1>2. CASE Verified(r)
  <2>1. /\ \A q \in Replicas \ {r} : place'[q] = place[q] /\ pending'[q] = pending[q]
        /\ place'[r] = "apply" /\ pending'[r] = Pending(r)
        /\ place[r] = "verify"
        /\ UNCHANGED <<ledger, ran, image, file, stmt>>
    BY <1>2 DEF Verify, MigratedInv, PlaceInv, To, server
  <2>2. Pending(r) \subseteq image[r]
    BY DEF Pending
  <2>3. image[r] \subseteq ledger \cup Pending(r)
    <3>1. SUFFICES ASSUME NEW f \in image[r], f.v \in Versions(ledger)
                   PROVE  f \in ledger
      BY DEF Pending
    <3>2. PICK g \in ledger : g.v = f.v
      BY <3>1 DEF Versions
    <3>3. PICK h \in image[r] : h.v = g.v /\ h.sum = g.sum
      BY <1>2 DEF Verified
    <3>4. h = f
      <4>1. image[r] \in Images
        BY DEF MigratedInv, PlaceInv
      <4> QED
        BY <3>2, <3>3, <4>1, FileFacts
    <3>5. f \in Files /\ g \in Files
      BY DEF MigratedInv, PlaceInv
    <3> QED
      BY <3>2, <3>3, <3>4, <3>5, FileFacts
  <2>4. PlaceInv'
    <3>1. pending' \in [Replicas -> SUBSET Files] /\ place' \in [Replicas -> Places]
      BY <1>2, <2>2 DEF MigratedInv, PlaceInv, Verify, To, Places
    <3> QED
      BY <2>1, <2>2, <3>1 DEF MigratedInv, PlaceInv
  <2>5. ProgressInv'
    BY <2>1, <2>3 DEF MigratedInv, PlaceInv, ProgressInv, Left
  <2>6. LedgerInv'
    BY <2>1 DEF MigratedInv, LedgerInv
  <2> QED
    BY <2>4, <2>5, <2>6 DEF MigratedInv
<1> QED
  BY <1>1, <1>2

LEMMA TakeStep ==
    ASSUME MigratedInv, NEW r \in Replicas, Take(r)
    PROVE  MigratedInv'
<1>1. PICK f \in pending[r] : /\ file' = [file EXCEPT ![r] = f]
                              /\ pending' = [pending EXCEPT ![r] = @ \ {f}]
  BY DEF Take
<1>2. /\ \A q \in Replicas \ {r} : /\ place'[q] = place[q] /\ pending'[q] = pending[q]
                                   /\ file'[q] = file[q]
      /\ place'[r] = "run" /\ pending'[r] = pending[r] \ {f} /\ file'[r] = f
      /\ place[r] = "apply" /\ stmt[r] = 0
      /\ UNCHANGED <<ledger, ran, image, stmt>>
  BY <1>1 DEF Take, MigratedInv, PlaceInv, To, server
<1>3. f \in image[r] /\ f \in Files
  BY DEF MigratedInv, PlaceInv
<1>4. PlaceInv'
  BY <1>1, <1>2, <1>3 DEF MigratedInv, PlaceInv, Take, To, Places
<1>5. ProgressInv'
  <2> SUFFICES ASSUME NEW q \in Replicas
               PROVE  /\ place'[q] \in {"apply", "run", "up"} => image'[q] \subseteq ledger' \cup Left(q)'
                      /\ place'[q] = "run" => \A i \in 1..stmt'[q] : ran'[file'[q]][i] > 0
    BY DEF ProgressInv
  <2>1. CASE q = r
    <3>1. Left(r)' = (pending[r] \ {f}) \cup {f}
      BY <1>2 DEF Left
    <3>2. image[r] \subseteq ledger \cup pending[r]
      BY <1>2 DEF MigratedInv, ProgressInv, Left
    <3> QED
      BY <1>2, <2>1, <3>1, <3>2
  <2>2. CASE q # r
    <3>1. Left(q)' = Left(q)
      BY <1>2, <2>2 DEF Left
    <3> QED
      BY <1>2, <2>2, <3>1 DEF MigratedInv, ProgressInv
  <2> QED
    BY <2>1, <2>2
<1>6. LedgerInv'
  BY <1>2 DEF MigratedInv, LedgerInv
<1> QED
  BY <1>4, <1>5, <1>6 DEF MigratedInv

LEMMA UpStep ==
    ASSUME MigratedInv, NEW r \in Replicas, Up(r)
    PROVE  MigratedInv'
<1>1. /\ \A q \in Replicas \ {r} : place'[q] = place[q]
      /\ place'[r] = "up" /\ pending[r] = {} /\ place[r] = "apply"
      /\ UNCHANGED <<ledger, ran, image, pending, file, stmt>>
  BY DEF Up, MigratedInv, PlaceInv, To, server, Stays
<1>2. PlaceInv'
  BY <1>1 DEF MigratedInv, PlaceInv, Up, To, Places
<1>3. ProgressInv'
  BY <1>1 DEF MigratedInv, PlaceInv, ProgressInv, Left
<1>4. LedgerInv'
  BY <1>1 DEF MigratedInv, LedgerInv
<1> QED
  BY <1>2, <1>3, <1>4 DEF MigratedInv
LEMMA RunPlainStep ==
    ASSUME MigratedInv, NEW r \in Replicas, RunPlain(r)
    PROVE  MigratedInv'
<1>1. CASE Recorded(r)
  BY <1>1, LeavingStep DEF RunPlain
<1>2. CASE ~ Recorded(r)
  <2> DEFINE f == file[r]
  <2>1. f \in Files /\ f \in image[r] /\ f.plain /\ f \notin ledger /\ stmt[r] = 0
    BY <1>2 DEF RunPlain, Recorded, Versions, MigratedInv, PlaceInv
  <2>2. ran[f] = NotRun
    BY <2>1 DEF MigratedInv, LedgerInv
  <2>3. /\ ran' = [ran EXCEPT ![f] = [i \in 1..Statements |-> @[i] + 1]]
        /\ ledger' = ledger \cup {f}
        /\ place' = [place EXCEPT ![r] = "apply"]
        /\ UNCHANGED <<image, pending, file, stmt>>
    BY <1>2 DEF RunPlain, To, Stays
  <2>4. ran'[f] = Once /\ \A g \in Files \ {f} : ran'[g] = ran[g]
    BY <2>1, <2>2, <2>3, FileFacts DEF MigratedInv, PlaceInv, NotRun, Once
  <2>5. \A i \in 1..Statements : Once[i] = 1
    BY DEF Once
  <2>6. LedgerInv'
    <3>1. ASSUME NEW g \in Files
          PROVE  /\ g \in ledger' => \A i \in 1..Statements : ran'[g][i] > 0
                 /\ g \in ledger' /\ g.plain => ran'[g] = Once
                 /\ g \notin ledger' /\ g.plain => ran'[g] = NotRun
      <4>1. CASE g = f
        <5>1. ran'[g] = Once /\ g \in ledger'
          BY <2>3, <2>4, <4>1
        <5> HIDE DEF f
        <5> QED
          BY <2>5, <5>1
      <4>2. CASE g # f
        BY <2>3, <2>4, <4>2 DEF MigratedInv, LedgerInv
      <4> QED
        BY <4>1, <4>2
    <3> QED
      BY <3>1 DEF LedgerInv
  <2>7. PlaceInv'
    <3>1. ran' \in [Files -> [1..Statements -> Nat]]
      BY <2>1, <2>3, FileFacts DEF MigratedInv, PlaceInv
    <3> QED
      BY <2>1, <2>3, <3>1 DEF MigratedInv, PlaceInv, Places
  <2>8. \A g \in Files : \A i \in 1..Statements : ran[g][i] > 0 => ran'[g][i] > 0
    BY <2>1, <2>4, <2>5
  <2>9. ProgressInv'
    <3>1. ASSUME NEW q \in Replicas
          PROVE  /\ place'[q] \in {"apply", "run", "up"} => image'[q] \subseteq ledger' \cup Left(q)'
                 /\ place'[q] = "run" => \A i \in 1..stmt'[q] : ran'[file'[q]][i] > 0
      <4>1. CASE q = r
        BY <2>1, <2>3, <4>1 DEF MigratedInv, PlaceInv, ProgressInv, Left, RunPlain
      <4>2. CASE q # r
        <5>1. place'[q] = place[q] /\ Left(q)' = Left(q)
          BY <2>3, <4>2 DEF MigratedInv, PlaceInv, Left
        <5>2. place[q] = "run" => file[q] \in Files /\ stmt[q] \in 0..Statements
          BY DEF MigratedInv, PlaceInv
        <5> QED
          BY <2>3, <2>8, <5>1, <5>2, FileFacts DEF MigratedInv, ProgressInv
      <4> QED
        BY <4>1, <4>2
    <3> QED
      BY <3>1 DEF ProgressInv
  <2> QED
    BY <2>6, <2>7, <2>9 DEF MigratedInv
<1> QED
  BY <1>1, <1>2

LEMMA RunStatementStep ==
    ASSUME MigratedInv, NEW r \in Replicas, RunStatement(r)
    PROVE  MigratedInv'
<1> DEFINE f == file[r]
           n == stmt[r] + 1
<1>1. f \in Files /\ ~ f.plain /\ place[r] = "run" /\ n \in 1..Statements /\ stmt[r] \in 0..Statements
  BY FileFacts DEF RunStatement, MigratedInv, PlaceInv
<1>2. /\ ran' = [ran EXCEPT ![f][n] = @ + 1]
      /\ stmt' = [stmt EXCEPT ![r] = n]
      /\ UNCHANGED <<ledger, place, image, pending, file>>
  BY DEF RunStatement, MigratedInv, PlaceInv
<1>3. /\ ran' \in [Files -> [1..Statements -> Nat]]
      /\ \A g \in Files \ {f} : ran'[g] = ran[g]
      /\ \A i \in 1..Statements : ran'[f][i] = IF i = n THEN ran[f][i] + 1 ELSE ran[f][i]
  <2>1. ran \in [Files -> [1..Statements -> Nat]]
    BY DEF MigratedInv, PlaceInv
  <2>2. ran' = [ran EXCEPT ![f] = [ran[f] EXCEPT ![n] = ran[f][n] + 1]]
    BY <1>2
  <2>3. ran[f][n] + 1 \in Nat
    BY <1>1, <2>1, RanTyped
  <2>4. [ran[f] EXCEPT ![n] = ran[f][n] + 1] \in [1..Statements -> Nat]
    BY <1>1, <2>1, <2>3
  <2>5. ran'[f] = [ran[f] EXCEPT ![n] = ran[f][n] + 1]
    BY <1>1, <2>1, <2>2
  <2> HIDE DEF n, f
  <2>6. ran[f] \in [1..Statements -> Nat]
    BY <1>1, <2>1
  <2> QED
    BY <1>1, <2>1, <2>2, <2>4, <2>5, <2>6
<1>4. /\ \A g \in Files : \A i \in 1..Statements : ran[g][i] > 0 => ran'[g][i] > 0
      /\ ran'[f][n] > 0
  <2>1. \A g \in Files : \A i \in 1..Statements : ran[g][i] \in Nat
    BY RanTyped DEF MigratedInv, PlaceInv
  <2> HIDE DEF n, f
  <2> QED
    BY <1>1, <1>3, <2>1
<1>5. LedgerInv'
  BY <1>1, <1>2, <1>3, <1>4 DEF MigratedInv, LedgerInv
<1>6. PlaceInv'
  BY <1>1, <1>2, <1>3 DEF MigratedInv, PlaceInv
<1>7. ProgressInv'
  <2>1. \A q \in Replicas : Left(q)' = Left(q)
    BY <1>2 DEF Left
  <2>2. ASSUME NEW q \in Replicas, place'[q] = "run", NEW i \in 1..stmt'[q]
        PROVE  ran'[file'[q]][i] > 0
    <3>1. place[q] = "run" /\ file'[q] = file[q] /\ file[q] \in Files /\ stmt[q] \in 0..Statements
      BY <1>2, <2>2 DEF MigratedInv, PlaceInv
    <3>2. CASE q = r
      <4>1. stmt'[q] = n
        BY <1>2, <3>2 DEF MigratedInv, PlaceInv
      <4>2. i = n \/ i \in 1..stmt[q]
        BY <1>1, <2>2, <3>2, <4>1
      <4>3. CASE i = n
        BY <1>4, <3>1, <3>2, <4>3
      <4>4. CASE i \in 1..stmt[q]
        <5>1. ran[file[q]][i] > 0 /\ i \in 1..Statements
          BY <3>1, <4>4, FileFacts DEF MigratedInv, ProgressInv
        <5> QED
          BY <1>4, <3>1, <5>1
      <4> QED
        BY <4>2, <4>3, <4>4
    <3>3. CASE q # r
      BY <1>2, <1>4, <2>2, <3>1, <3>3, FileFacts DEF MigratedInv, PlaceInv, ProgressInv
    <3> QED
      BY <3>2, <3>3
  <2> QED
    BY <1>2, <2>1, <2>2 DEF MigratedInv, ProgressInv
<1> QED
  BY <1>5, <1>6, <1>7 DEF MigratedInv

LEMMA RecordStep ==
    ASSUME MigratedInv, NEW r \in Replicas, Record(r)
    PROVE  MigratedInv'
<1>1. CASE Recorded(r)
  BY <1>1, LeavingStep DEF Record
<1>2. CASE ~ Recorded(r)
  <2> DEFINE f == file[r]
  <2>1. f \in Files /\ f \in image[r] /\ ~ f.plain /\ place[r] = "run" /\ stmt[r] = Statements
    BY DEF Record, MigratedInv, PlaceInv
  <2>2. \A i \in 1..Statements : ran[f][i] > 0
    BY <2>1 DEF MigratedInv, ProgressInv
  <2>3. /\ ledger' = ledger \cup {f} /\ stmt' = [stmt EXCEPT ![r] = 0]
        /\ place' = [place EXCEPT ![r] = "apply"]
        /\ UNCHANGED <<ran, image, pending, file>>
    BY <1>2 DEF Record, To
  <2>4. LedgerInv'
    BY <2>1, <2>2, <2>3 DEF MigratedInv, LedgerInv
  <2>5. PlaceInv'
    BY <2>1, <2>3, FileFacts DEF MigratedInv, PlaceInv, Places
  <2>6. ProgressInv'
    BY <2>1, <2>3 DEF MigratedInv, PlaceInv, ProgressInv, Left
  <2> QED
    BY <2>4, <2>5, <2>6 DEF MigratedInv
<1> QED
  BY <1>1, <1>2

LEMMA NextMigrated == MigratedInv /\ [StartupNext]_startupVars => MigratedInv'
<1> SUFFICES ASSUME MigratedInv, [StartupNext]_startupVars
             PROVE  MigratedInv'
  OBVIOUS
<1>1. CASE UNCHANGED startupVars
  BY <1>1 DEF startupVars, MigratedInv, PlaceInv, LedgerInv, ProgressInv, Left
<1>2. ASSUME NEW r \in Replicas,
             Proceed(r) \/ Boot(r) \/ Stop(r) \/ Unreachable(r) \/ MaintenanceLost(r)
      PROVE  MigratedInv'
  <2> USE DEF server, Stays, To, locks
  <2>1. CASE Connect(r)
    BY <2>1, QuietStart DEF Connect, Places
  <2>2. CASE Probe(r)
    BY <2>2, QuietStart, LeavingStep DEF Probe, Places
  <2>3. CASE GiveUp(r)
    BY <2>3, LeavingStep DEF GiveUp
  <2>4. CASE LockCreate(r)
    BY <2>4, QuietStart DEF LockCreate, Places
  <2>5. CASE Create(r)
    BY <2>5, QuietStart, LeavingStep DEF Create, Places
  <2>6. CASE Check(r)
    BY <2>6, QuietStart, LeavingStep DEF Check, Places
  <2>7. CASE LockMigrate(r)
    BY <2>7, QuietStart DEF LockMigrate, Places
  <2>8. CASE Schema(r)
    BY <2>8, QuietStart DEF Schema, Places
  <2>9. CASE Boot(r)
    BY <2>9, QuietStart DEF Boot, Places
  <2>10. CASE Stop(r)
    BY <2>10, LeavingStep DEF Stop
  <2>11. CASE Unreachable(r)
    <3>1. place' = [place EXCEPT ![r] = "connect"]
      BY <2>11 DEF Unreachable, MigratedInv, PlaceInv
    <3> QED
      BY <2>11, <3>1, QuietStart DEF Unreachable, Places
  <2>12. CASE MaintenanceLost(r)
    BY <2>12, LeavingStep DEF MaintenanceLost
  <2>13. CASE StatementRaises(r)
    BY <2>13, LeavingStep DEF StatementRaises
  <2> QED
    BY <1>2, <2>1, <2>2, <2>3, <2>4, <2>5, <2>6, <2>7, <2>8, <2>9, <2>10, <2>11, <2>12, <2>13,
       VerifyStep, TakeStep, UpStep, RunPlainStep, RunStatementStep, RecordStep DEF Proceed
<1> QED
  BY <1>1, <1>2 DEF StartupNext

(* For every set of replicas and images: a replica that is up has every    *)
(* migration of its image recorded and run, a transactional one exactly    *)
(* once (apply_migrations, select_pending, _apply_one).                    *)
THEOREM UpIsMigrated == StartupSpec => []UpMeansMigrated
<1>1. MigratedInv => UpMeansMigrated
  BY DEF MigratedInv, PlaceInv, LedgerInv, ProgressInv, Left, UpMeansMigrated
<1> QED
  BY <1>1, InitMigrated, NextMigrated, PTL DEF StartupSpec

-----------------------------------------------------------------------------
(* The migration lock: who applies migrations holds it, so that what was   *)
(* pending when it looked still is.                                        *)

Inside == {"schema", "verify", "apply", "run"}

SerialInv ==
    /\ code \in [Replicas -> {0, 3, 4, 5}]
    /\ \A r \in Replicas :
          /\ place[r] \in Inside => migrateLock = r
          /\ place[r] \in {"apply", "run"} => \A f \in Left(r) : f.v \notin Versions(ledger)
          /\ place[r] = "run" => file[r] \notin pending[r]

LEMMA InitSerial == StartupInit => SerialInv
BY DEF StartupInit, SerialInv, Inside

(* A step of r that touches neither lock nor migrations. *)
LEMMA SerialQuiet ==
    ASSUME MigratedInv, SerialInv, NEW r \in Replicas, NEW p \in Places \ Inside,
           UNCHANGED <<ledger, migrateLock, code, pending, file>>,
           place[r] \notin Inside, place' = [place EXCEPT ![r] = p]
    PROVE  SerialInv'
BY DEF MigratedInv, PlaceInv, SerialInv, Inside, Left, Versions

LEMMA SerialLeaving ==
    ASSUME MigratedInv, SerialInv, NEW r \in Replicas, NEW p \in {"down", "exit"},
           NEW c \in {0, 3, 4, 5}, Leaves(r, p, c)
    PROVE  SerialInv'
<1>1. /\ \A q \in Replicas \ {r} : /\ place'[q] = place[q] /\ pending'[q] = pending[q]
                                   /\ file'[q] = file[q]
      /\ place'[r] = p
      /\ ledger' = ledger
      /\ migrateLock' = IF migrateLock = r THEN Unheld ELSE migrateLock
      /\ code' \in [Replicas -> {0, 3, 4, 5}]
  BY DEF Leaves, To, server, Released, MigratedInv, PlaceInv, SerialInv
<1>2. \A q \in Replicas \ {r} : Left(q)' = Left(q)
  BY <1>1 DEF Left
<1> QED
  BY <1>1, <1>2 DEF SerialInv, Inside, Versions

(* A step of the lock's holder: nobody else is inside. *)
LEMMA SerialHolder ==
    ASSUME MigratedInv, SerialInv, NEW r \in Replicas,
           migrateLock = r \/ migrateLock = Unheld,
           migrateLock' = r \/ place'[r] \notin Inside,
           code' = code,
           \A q \in Replicas \ {r} : place'[q] = place[q],
           place'[r] \in {"apply", "run"} => \A f \in Left(r)' : f.v \notin Versions(ledger)',
           place'[r] = "run" => file'[r] \notin pending'[r]
    PROVE  SerialInv'
<1>1. \A q \in Replicas \ {r} : place[q] \notin Inside
  BY StartupAssumption DEF SerialInv
<1> QED
  BY <1>1 DEF SerialInv, Inside

LEMMA NextSerial == MigratedInv /\ SerialInv /\ [StartupNext]_startupVars => SerialInv'
<1> SUFFICES ASSUME MigratedInv, SerialInv, [StartupNext]_startupVars
             PROVE  SerialInv'
  OBVIOUS
<1>1. CASE UNCHANGED startupVars
  BY <1>1 DEF startupVars, SerialInv, Left, Versions
<1>2. ASSUME NEW r \in Replicas,
             Proceed(r) \/ Boot(r) \/ Stop(r) \/ Unreachable(r) \/ MaintenanceLost(r)
      PROVE  SerialInv'
  <2> USE DEF server, Stays, To, locks
  <2>1. CASE Connect(r)
    BY <2>1, SerialQuiet DEF Connect, Places, Inside
  <2>2. CASE Probe(r)
    BY <2>2, SerialQuiet, SerialLeaving DEF Probe, Places, Inside
  <2>3. CASE GiveUp(r)
    BY <2>3, SerialLeaving DEF GiveUp
  <2>4. CASE LockCreate(r)
    BY <2>4, SerialQuiet DEF LockCreate, Places, Inside
  <2>5. CASE Create(r)
    BY <2>5, SerialQuiet, SerialLeaving DEF Create, Places, Inside
  <2>6. CASE Check(r)
    BY <2>6, SerialQuiet, SerialLeaving DEF Check, Places, Inside
  <2>7. CASE Boot(r)
    BY <2>7, SerialQuiet DEF Boot, Places, Inside
  <2>8. CASE Stop(r)
    BY <2>8, SerialLeaving DEF Stop
  <2>9. CASE Unreachable(r)
    <3>1. place' = [place EXCEPT ![r] = "connect"]
      BY <2>9 DEF Unreachable, MigratedInv, PlaceInv
    <3> QED
      BY <2>9, <3>1, SerialQuiet DEF Unreachable, Places, Inside
  <2>10. CASE MaintenanceLost(r)
    BY <2>10, SerialLeaving DEF MaintenanceLost
  <2>11. CASE StatementRaises(r)
    BY <2>11, SerialLeaving DEF StatementRaises
  <2>12. CASE LockMigrate(r)
    <3>1. /\ place'[r] = "schema" /\ migrateLock' = r /\ migrateLock = Unheld /\ code' = code
          /\ \A q \in Replicas \ {r} : place'[q] = place[q]
      BY <2>12 DEF LockMigrate, LockFree, MigratedInv, PlaceInv
    <3> QED
      BY <3>1, SerialHolder
  <2>13. CASE Schema(r)
    <3>1. /\ place'[r] = "verify" /\ migrateLock' = r /\ migrateLock = r /\ code' = code
          /\ \A q \in Replicas \ {r} : place'[q] = place[q]
      BY <2>13 DEF Schema, MigratedInv, PlaceInv, SerialInv, Inside
    <3> QED
      BY <3>1, SerialHolder
  <2>14. CASE Verify(r)
    <3>1. CASE ~ Verified(r)
      BY <2>14, <3>1, SerialLeaving DEF Verify
    <3>2. CASE Verified(r)
      <4>1. /\ place'[r] = "apply" /\ migrateLock' = r /\ migrateLock = r /\ code' = code
            /\ \A q \in Replicas \ {r} : place'[q] = place[q]
            /\ pending'[r] = Pending(r) /\ ledger' = ledger
        BY <2>14, <3>2 DEF Verify, MigratedInv, PlaceInv, SerialInv, Inside
      <4>2. Left(r)' = Pending(r)
        BY <4>1 DEF Left
      <4>3. \A f \in Left(r)' : f.v \notin Versions(ledger)'
        BY <4>1, <4>2 DEF Pending, Versions
      <4> QED
        BY <4>1, <4>3, SerialHolder
    <3> QED
      BY <3>1, <3>2
  <2>15. CASE Take(r)
    <3>1. PICK f \in pending[r] : /\ file' = [file EXCEPT ![r] = f]
                                  /\ pending' = [pending EXCEPT ![r] = @ \ {f}]
      BY <2>15 DEF Take
    <3>2. /\ place[r] = "apply" /\ place'[r] = "run" /\ migrateLock' = r /\ migrateLock = r
          /\ code' = code /\ ledger' = ledger
          /\ \A q \in Replicas \ {r} : place'[q] = place[q]
          /\ file'[r] = f /\ pending'[r] = pending[r] \ {f}
      BY <2>15, <3>1 DEF Take, MigratedInv, PlaceInv, SerialInv, Inside
    <3>3. Left(r)' = pending[r] /\ Left(r) = pending[r]
      BY <3>1, <3>2 DEF Left
    <3>4. \A g \in Left(r)' : g.v \notin Versions(ledger)'
      BY <3>2, <3>3 DEF SerialInv, Versions
    <3> QED
      BY <3>2, <3>4, SerialHolder
  <2>16. CASE Up(r)
    <3>1. /\ place[r] = "apply" /\ place'[r] = "up" /\ migrateLock = r /\ code' = code
          /\ \A q \in Replicas \ {r} : place'[q] = place[q]
      BY <2>16 DEF Up, MigratedInv, PlaceInv, SerialInv, Inside
    <3> QED
      BY <3>1, SerialHolder DEF Inside
  <2>17. CASE RunStatement(r)
    <3>1. /\ place[r] = "run" /\ place'[r] = "run" /\ migrateLock' = r /\ migrateLock = r
          /\ \A q \in Replicas \ {r} : place'[q] = place[q]
          /\ UNCHANGED <<code, ledger, file, pending, place>>
      BY <2>17 DEF RunStatement, MigratedInv, PlaceInv, SerialInv, Inside
    <3>2. /\ \A g \in Left(r)' : g.v \notin Versions(ledger)'
          /\ file'[r] \notin pending'[r]
      BY <3>1 DEF SerialInv, Left, Versions
    <3> QED
      BY <3>1, <3>2, SerialHolder
  <2>18. ASSUME place[r] = "run", ledger' = ledger \cup {file[r]}, UNCHANGED <<code, migrateLock, pending>>,
                place' = [place EXCEPT ![r] = "apply"]
         PROVE  SerialInv'
    <3>1. /\ place'[r] = "apply" /\ migrateLock' = r /\ migrateLock = r
          /\ \A q \in Replicas \ {r} : place'[q] = place[q]
      BY <2>18 DEF MigratedInv, PlaceInv, SerialInv, Inside
    <3>2. Left(r)' = pending[r] /\ pending[r] \subseteq Left(r) /\ file[r] \notin pending[r]
      BY <2>18, <3>1 DEF Left, SerialInv
    <3>3. \A g \in pending[r] : g.v # file[r].v
      <4>1. image[r] \in Images /\ file[r] \in image[r] /\ pending[r] \subseteq image[r]
        BY <2>18 DEF MigratedInv, PlaceInv
      <4> QED
        BY <3>2, <4>1, FileFacts
    <3>4. \A g \in Left(r)' : g.v \notin Versions(ledger)'
      BY <2>18, <3>2, <3>3 DEF SerialInv, Versions
    <3> QED
      BY <2>18, <3>1, <3>4, SerialHolder
  <2>19. CASE RunPlain(r)
    BY <2>19, <2>18, SerialLeaving DEF RunPlain
  <2>20. CASE Record(r)
    BY <2>20, <2>18, SerialLeaving DEF Record
  <2> QED
    BY <1>2, <2>1, <2>2, <2>3, <2>4, <2>5, <2>6, <2>7, <2>8, <2>9, <2>10, <2>11, <2>12, <2>13,
       <2>14, <2>15, <2>16, <2>17, <2>19, <2>20 DEF Proceed
<1> QED
  BY <1>1, <1>2 DEF StartupNext

(* What StartsConverge says of one step. *)
Converging ==
    \A r \in Replicas : code'[r] = 5 /\ code[r] = 0 =>
        \/ ~ Verified(r)
        \/ ~ file[r].plain /\ Interrupted(file[r])

LEMMA StepConverges == MigratedInv /\ SerialInv /\ StartupNext => Converging
<1> SUFFICES ASSUME MigratedInv, SerialInv, NEW r \in Replicas,
                    Proceed(r) \/ Boot(r) \/ Stop(r) \/ Unreachable(r) \/ MaintenanceLost(r)
             PROVE  Converging
  BY DEF StartupNext
<1>1. CASE code' = code
  BY <1>1 DEF Converging
<1>2. ASSUME NEW p, NEW c \in {0, 3, 4}, Leaves(r, p, c)
      PROVE  Converging
  BY <1>2 DEF Leaves, Converging, SerialInv
<1>3. ASSUME NEW p, Leaves(r, p, 5), ~ Verified(r) \/ (~ file[r].plain /\ Interrupted(file[r]))
      PROVE  Converging
  BY <1>3 DEF Leaves, Converging, SerialInv
<1>4. CASE Verify(r)
  BY <1>1, <1>3, <1>4 DEF Verify
<1>5. place[r] = "run" => ~ Recorded(r)
  BY DEF SerialInv, Recorded, Left
<1>6. CASE RunPlain(r)
  BY <1>1, <1>5, <1>6 DEF RunPlain, Stays
<1>7. CASE Record(r)
  BY <1>1, <1>5, <1>7 DEF Record
<1>8. CASE StatementRaises(r)
  <2>1. stmt[r] + 1 \in 1..Statements
    BY <1>8, FileFacts DEF StatementRaises, MigratedInv, PlaceInv
  <2> QED
    BY <1>3, <1>8, <2>1 DEF StatementRaises, Interrupted
<1> QED
  BY <1>1, <1>2, <1>4, <1>6, <1>7, <1>8
  DEF Proceed, Connect, Probe, GiveUp, LockCreate, Create, Check, LockMigrate, Schema, Take, Up,
      RunStatement, Boot, Stop, Unreachable, MaintenanceLost, Stays

(* For every set of replicas and images: a start gives up on the           *)
(* migrations only over history, never because of a concurrent start       *)
(* (migration_lock, apply_migrations).                                     *)
THEOREM ConcurrentStartsConverge == StartupSpec => StartsConverge
<1>1. MigratedInv /\ SerialInv /\ [StartupNext]_startupVars => [Converging]_startupVars
  BY StepConverges
<1> QED
  BY <1>1, InitMigrated, NextMigrated, InitSerial, NextSerial, PTL
  DEF StartupSpec, StartsConverge, Converging

-----------------------------------------------------------------------------
(* Store *)

IsFcn(f, S) == f = [x \in S |-> f[x]]

Deletions == {"delete", "item_remove", "launch_remove"}

(* The places of each kind of request. *)
IndexAt == {"lock", "load", "save", "mirror", "upsert"}
DeleteAt == {"purge", "erase"}
DefectAt == {"read", "relabel", "append", "member", "count", "purity", "outcome"}
AnalyzeAt == {"decide", "suggest", "auto", "join"}

(* What a deletion may delete. *)
Scope(w) == IF req[w].kind = "delete" THEN Items ELSE req[w].items

ShapeInv ==
    /\ IsFcn(item, Items) /\ IsFcn(sig, Items)
    /\ IsFcn(pc, Workers) /\ IsFcn(req, Workers) /\ IsFcn(writes, Workers)

RequestInv ==
    \A w \in Workers :
        /\ pc[w] \in {"idle"} \cup IndexAt \cup DeleteAt \cup DefectAt \cup AnalyzeAt
        /\ pc[w] \in IndexAt => req[w].batch \in Batches /\ req[w].label \in PayloadLabels
        /\ pc[w] \in DeleteAt => req[w].kind \in Deletions /\ Scope(w) \in SUBSET Items
        /\ pc[w] \in DefectAt => req[w].item \in Items /\ req[w].label \in Labels
        /\ pc[w] \in AnalyzeAt => req[w].item \in Items /\ req[w].verdict \in Verdicts

(* An item is there with its signature. *)
WholeInv == \A i \in Items : item[i] # NoItem => sig[i] # NoSig

(* A deletion has marked only what it may delete. *)
DoomInv ==
    \A w \in Workers : pc[w] = "erase" =>
        \A i \in Items : Row("sig", i) \in writes[w] => i \in Scope(w)

StoreInv == ShapeInv /\ RequestInv /\ WholeInv /\ DoomInv

LEMMA RowsDiffer ==
    \A t, u, i, j : Row(t, i) = Row(u, j) => t = u /\ i = j
BY DEF Row

LEMMA TemplateNotEmpty == \A known, i : Template(known, i) # NoSig
BY DEF Template, NoSig

LEMMA InitStore == Init => StoreInv
BY DEF Init, StoreInv, ShapeInv, IsFcn, RequestInv, WholeInv, DoomInv, NoSig,
       IndexAt, DeleteAt, DefectAt, AnalyzeAt

(* A step of w that keeps items and signatures, takes no new request and   *)
(* does not go on to erase. *)
LEMMA QuietStep ==
    ASSUME StoreInv, NEW w \in Workers, NEW p,
           UNCHANGED <<item, sig>>,
           pc' = [pc EXCEPT ![w] = p],
           req' = [req EXCEPT ![w] = Idle] \/ req' = req,
           \E x : writes' = [writes EXCEPT ![w] = x],
           \/ p = "idle"
           \/ req' = req /\ \/ p \in IndexAt /\ pc[w] \in IndexAt
                            \/ p \in DefectAt /\ pc[w] \in DefectAt
                            \/ p \in AnalyzeAt /\ pc[w] \in AnalyzeAt
    PROVE  StoreInv' /\ Shelf' = Shelf
<1> USE DEF StoreInv
<1>1. /\ pc'[w] = p /\ \A v \in Workers \ {w} : /\ pc'[v] = pc[v] /\ req'[v] = req[v]
                                                /\ writes'[v] = writes[v]
      /\ IsFcn(pc', Workers) /\ IsFcn(req', Workers) /\ IsFcn(writes', Workers)
  BY DEF ShapeInv, IsFcn
<1>2. p # "erase" /\ p \notin DeleteAt
  BY DEF IndexAt, DefectAt, AnalyzeAt, DeleteAt
<1>3. ShapeInv'
  BY <1>1 DEF ShapeInv
<1>4. RequestInv'
  BY <1>1, <1>2 DEF RequestInv, Scope, IndexAt, DefectAt, AnalyzeAt, DeleteAt
<1>5. WholeInv'
  BY DEF WholeInv
<1>6. DoomInv'
  BY <1>1, <1>2 DEF DoomInv, Scope
<1> QED
  BY <1>3, <1>4, <1>5, <1>6 DEF Shelf

LEMMA StartStep ==
    ASSUME StoreInv, NEW w \in Workers, Start(w)
    PROVE  StoreInv' /\ Shelf' = Shelf
<1> USE DEF StoreInv
<1>1. PICK r \in Asks : /\ req' = [req EXCEPT ![w] = r]
                        /\ pc' = [pc EXCEPT ![w] = FirstStep(r.kind)]
  BY DEF Start
<1>2. UNCHANGED <<item, sig, writes>>
  BY DEF Start, tables
<1>3. /\ pc'[w] = FirstStep(r.kind) /\ req'[w] = r
      /\ \A v \in Workers \ {w} : pc'[v] = pc[v] /\ req'[v] = req[v]
      /\ IsFcn(pc', Workers) /\ IsFcn(req', Workers)
  BY <1>1 DEF ShapeInv, IsFcn
<1>4. \/ /\ FirstStep(r.kind) = "lock" /\ r.batch \in Batches /\ r.label \in PayloadLabels
      \/ /\ FirstStep(r.kind) = "read" /\ r.item \in Items /\ r.label \in Labels
      \/ /\ FirstStep(r.kind) = "decide" /\ r.item \in Items /\ r.verdict \in Verdicts
      \/ /\ FirstStep(r.kind) = "purge" /\ r.kind \in Deletions
         /\ r.kind # "delete" => r.items \in SUBSET Items
  BY DEF Asks, FirstStep, Deletions
<1>5. RequestInv'
  BY <1>2, <1>3, <1>4 DEF RequestInv, Scope, IndexAt, DeleteAt, DefectAt, AnalyzeAt
<1>6. DoomInv'
  BY <1>2, <1>3, <1>4 DEF DoomInv, Scope
<1> QED
  BY <1>2, <1>3, <1>5, <1>6 DEF ShapeInv, WholeInv, Shelf

LEMMA PurgeStep ==
    ASSUME StoreInv, NEW w \in Workers, Purge(w)
    PROVE  StoreInv' /\ Shelf' = Shelf
<1> USE DEF StoreInv
<1>1. /\ pc[w] = "purge" /\ writes' = [writes EXCEPT ![w] = Doomed(w)]
      /\ pc' = [pc EXCEPT ![w] = "erase"]
      /\ UNCHANGED <<item, sig, req>>
  BY DEF Purge, Moves, tables
<1>2. /\ pc'[w] = "erase" /\ writes'[w] = Doomed(w)
      /\ \A v \in Workers \ {w} : pc'[v] = pc[v] /\ writes'[v] = writes[v]
      /\ IsFcn(pc', Workers) /\ IsFcn(writes', Workers)
  BY <1>1 DEF ShapeInv, IsFcn
<1>3. req[w].kind \in Deletions
  BY <1>1 DEF RequestInv, DeleteAt
<1>4. \A i \in Items : Row("sig", i) \in Doomed(w) => i \in Scope(w)
  <2>1. SUFFICES ASSUME NEW i \in Items, Row("sig", i) \in Doomed(w)
                 PROVE  i \in Scope(w)
    OBVIOUS
  <2>2. i \in Selected(w)
    BY <2>1, RowsDiffer DEF Doomed
  <2> QED
    BY <1>3, <2>2 DEF Selected, Scope, Deletions
<1>5. RequestInv'
  BY <1>1, <1>2 DEF RequestInv, Scope, DeleteAt, IndexAt, DefectAt, AnalyzeAt
<1>6. DoomInv'
  BY <1>1, <1>2, <1>4 DEF DoomInv, Scope
<1> QED
  BY <1>1, <1>2, <1>5, <1>6 DEF ShapeInv, WholeInv, Shelf

(* A request that ends, whatever it leaves of items and signatures. *)
LEMMA EndingStep ==
    ASSUME StoreInv, NEW w \in Workers,
           IsFcn(item', Items), IsFcn(sig', Items), WholeInv',
           pc' = [pc EXCEPT ![w] = "idle"], req' = [req EXCEPT ![w] = Idle],
           writes' = [writes EXCEPT ![w] = {}]
    PROVE  StoreInv'
<1> USE DEF StoreInv
<1>1. /\ pc'[w] = "idle" /\ \A v \in Workers \ {w} : /\ pc'[v] = pc[v] /\ req'[v] = req[v]
                                                     /\ writes'[v] = writes[v]
      /\ IsFcn(pc', Workers) /\ IsFcn(req', Workers) /\ IsFcn(writes', Workers)
  BY DEF ShapeInv, IsFcn
<1>2. RequestInv'
  BY <1>1 DEF RequestInv, Scope, IndexAt, DefectAt, AnalyzeAt, DeleteAt
<1>3. DoomInv'
  BY <1>1 DEF DoomInv, Scope
<1> QED
  BY <1>1, <1>2, <1>3 DEF ShapeInv

LEMMA EraseStep ==
    ASSUME StoreInv, NEW w \in Workers, Erase(w)
    PROVE  StoreInv' /\ \E S \in SUBSET Items : C!Take(S)
<1> USE DEF StoreInv
<1>1. /\ pc[w] = "erase" /\ req[w].kind \in Deletions /\ Scope(w) \in SUBSET Items
  BY DEF Erase, RequestInv, DeleteAt
<1>2. Selected(w) \in SUBSET Items /\ \A i \in Scope(w) : item[i] # NoItem => i \in Selected(w)
  BY <1>1 DEF Selected, Scope, Deletions, Present
<1>3. /\ item' = [i \in Items |-> IF i \in Selected(w) THEN NoItem ELSE item[i]]
      /\ sig' = [i \in Items |-> IF Row("sig", i) \in writes[w] THEN NoSig ELSE sig[i]]
      /\ pc' = [pc EXCEPT ![w] = "idle"] /\ req' = [req EXCEPT ![w] = Idle]
      /\ writes' = [writes EXCEPT ![w] = {}]
  BY DEF Erase
<1>4. \A i \in Items : item'[i] # NoItem => /\ item'[i] = item[i] /\ i \notin Selected(w)
                                           /\ sig'[i] = sig[i]
  BY <1>1, <1>2, <1>3 DEF DoomInv
<1>5. WholeInv'
  BY <1>4 DEF WholeInv
<1>6. StoreInv'
  <2>1. IsFcn(item', Items) /\ IsFcn(sig', Items)
    BY <1>3 DEF IsFcn
  <2> QED
    BY <1>3, <1>5, <2>1, EndingStep
<1>7. C!Take(Selected(w))
  <2>1. ASSUME NEW i \in Items
        PROVE  Shelf'[i] = IF i \in Selected(w) THEN "absent" ELSE Shelf[i]
    <3>1. CASE i \in Selected(w)
      BY <1>3, <3>1 DEF Shelf
    <3>2. CASE i \notin Selected(w)
      BY <1>3, <1>4, <3>2 DEF Shelf
    <3> QED
      BY <3>1, <3>2
  <2> QED
    BY <2>1 DEF C!Take, Shelf
<1> QED
  BY <1>2, <1>6, <1>7

LEMMA CommitStep ==
    ASSUME StoreInv, NEW w \in Workers, pc[w] = "upsert", Commit(w)
    PROVE  StoreInv' /\ \E b \in Batches : C!Put(b)
<1> USE DEF StoreInv
<1> DEFINE b == req[w].batch
<1>1. b \in Batches /\ req[w].label # NoItem.label
  BY StoreAssumption DEF RequestInv, IndexAt
<1>2. [label |-> req[w].label, auto |-> FALSE] # NoItem
  BY <1>1 DEF NoItem
<1>3. /\ item' = [i \in Items |-> IF i \in Indexed(w) THEN [label |-> req[w].label, auto |-> FALSE]
                                 ELSE item[i]]
      /\ sig' = [i \in Items |->
                    IF i \in Indexed(w)
                    THEN Signature(work[w].known, b, CHOOSE k \in DOMAIN b : b[k] = i) ELSE sig[i]]
      /\ pc' = [pc EXCEPT ![w] = "idle"] /\ req' = [req EXCEPT ![w] = Idle]
      /\ writes' = [writes EXCEPT ![w] = {}]
  BY DEF Commit, Ends
<1>4. \A i \in Items : IF i \in Indexed(w) THEN item'[i] # NoItem /\ sig'[i] # NoSig
                       ELSE item'[i] = item[i] /\ sig'[i] = sig[i]
  BY <1>2, <1>3, TemplateNotEmpty DEF Signature
<1>5. WholeInv'
  BY <1>4 DEF WholeInv
<1>6. StoreInv'
  <2>1. IsFcn(item', Items) /\ IsFcn(sig', Items)
    BY <1>3 DEF IsFcn
  <2> QED
    BY <1>3, <1>5, <2>1, EndingStep
<1>7. C!Put(b)
  <2>1. ASSUME NEW i \in Items
        PROVE  Shelf'[i] = IF \E k \in DOMAIN b : b[k] = i THEN "whole" ELSE Shelf[i]
    <3>1. i \in Indexed(w) <=> \E k \in DOMAIN b : b[k] = i
      BY DEF Indexed
    <3> QED
      BY <1>4, <3>1 DEF Shelf
  <2> QED
    BY <2>1 DEF C!Put, Shelf
<1> QED
  BY <1>1, <1>6, <1>7

(* A step that changes labels or adds a signature, and goes on. *)
LEMMA EditStep ==
    ASSUME StoreInv, NEW w \in Workers, NEW p,
           IsFcn(item', Items), IsFcn(sig', Items),
           \A i \in Items : /\ (item'[i] = NoItem) = (item[i] = NoItem)
                            /\ sig[i] # NoSig => sig'[i] # NoSig,
           pc' = [pc EXCEPT ![w] = p], UNCHANGED <<req, writes>>,
           \/ p \in DefectAt /\ pc[w] \in DefectAt
           \/ p \in AnalyzeAt /\ pc[w] \in AnalyzeAt
    PROVE  StoreInv' /\ Shelf' = Shelf
<1> USE DEF StoreInv
<1>1. /\ pc'[w] = p /\ \A v \in Workers \ {w} : pc'[v] = pc[v]
      /\ IsFcn(pc', Workers)
  BY DEF ShapeInv, IsFcn
<1>2. p \notin DeleteAt /\ p # "erase"
  BY DEF DefectAt, AnalyzeAt, DeleteAt
<1>3. RequestInv'
  BY <1>1, <1>2 DEF RequestInv, Scope, IndexAt, DefectAt, AnalyzeAt, DeleteAt
<1>4. DoomInv'
  BY <1>1, <1>2 DEF DoomInv, Scope
<1>5. WholeInv'
  BY DEF WholeInv
<1>6. Shelf' = Shelf
  BY <1>5 DEF Shelf, WholeInv
<1> QED
  BY <1>1, <1>3, <1>4, <1>5, <1>6 DEF ShapeInv

LEMMA RelabelledKeeps ==
    ASSUME ShapeInv, NEW i \in Items, NEW l, l # NoItem.label, NEW a,
           item' = Relabelled(i, l, a)
    PROVE  /\ IsFcn(item', Items)
           /\ \A j \in Items : (item'[j] = NoItem) = (item[j] = NoItem)
<1>1. [label |-> l, auto |-> a] # NoItem
  BY DEF NoItem
<1> QED
  BY <1>1 DEF ShapeInv, IsFcn, Relabelled

(* A step that touches neither the tables of the index nor the requests. *)
LEMMA StillStep ==
    ASSUME StoreInv, UNCHANGED <<item, sig, pc, req, writes>>
    PROVE  StoreInv' /\ Shelf' = Shelf
BY DEF StoreInv, ShapeInv, IsFcn, RequestInv, WholeInv, DoomInv, Scope, Shelf

LEMMA EndsStep ==
    ASSUME StoreInv, NEW w \in Workers, Ends(w), UNCHANGED <<item, sig>>
    PROVE  StoreInv' /\ Shelf' = Shelf
<1>1. /\ pc' = [pc EXCEPT ![w] = "idle"] /\ req' = [req EXCEPT ![w] = Idle]
      /\ writes' = [writes EXCEPT ![w] = {}]
  BY DEF Ends
<1> QED
  BY <1>1, QuietStep

LEMMA MovesStep ==
    ASSUME StoreInv, NEW w \in Workers, NEW p,
           pc' = [pc EXCEPT ![w] = p], UNCHANGED <<item, sig, req, writes>>,
           \/ p \in IndexAt /\ pc[w] \in IndexAt
           \/ p \in DefectAt /\ pc[w] \in DefectAt
           \/ p \in AnalyzeAt /\ pc[w] \in AnalyzeAt
    PROVE  StoreInv' /\ Shelf' = Shelf
<1>1. writes' = [writes EXCEPT ![w] = writes[w]]
  BY DEF StoreInv, ShapeInv, IsFcn
<1> QED
  BY <1>1, QuietStep

LEMMA NextStore ==
    StoreInv /\ [Next]_vars =>
        StoreInv' /\ (Shelf' = Shelf \/ (\E b \in Batches : C!Put(b)) \/ \E S \in SUBSET Items : C!Take(S))
<1> SUFFICES ASSUME StoreInv, [Next]_vars
             PROVE  /\ StoreInv'
                    /\ \/ Shelf' = Shelf
                       \/ \E b \in Batches : C!Put(b)
                       \/ \E S \in SUBSET Items : C!Take(S)
  OBVIOUS
<1>2. CASE UNCHANGED vars
  BY <1>2, StillStep DEF vars, tables
<1>3. CASE Mark \/ Sweep
  BY <1>3, StillStep DEF Mark, Sweep, Reaped
<1>4. ASSUME NEW w \in Workers, Request(w)
      PROVE  /\ StoreInv'
             /\ \/ Shelf' = Shelf
                \/ \E b \in Batches : C!Put(b)
                \/ \E S \in SUBSET Items : C!Take(S)
  <2>1. /\ pc = [pc EXCEPT ![w] = pc[w]] /\ writes = [writes EXCEPT ![w] = writes[w]]
    BY DEF StoreInv, ShapeInv, IsFcn
  <2> USE DEF tables, IndexAt, DefectAt, AnalyzeAt
  <2>4. CASE Fail(w) \/ Victim(w)
    BY <2>4, EndsStep DEF Fail, Victim
  <2>5. CASE Lock(w)
    <3>1. /\ pc[w] = "lock" /\ pc' = [pc EXCEPT ![w] = "load"] /\ UNCHANGED <<item, sig, req, writes>>
      BY <2>5 DEF Lock
    <3> QED
      BY <3>1, MovesStep
  <2>6. CASE LockLost(w)
    BY <2>6, StillStep DEF LockLost
  <2>7. CASE Load(w)
    BY <2>7, MovesStep DEF Load, Moves
  <2>8. CASE Save(w)
    BY <2>8, EndsStep, MovesStep DEF Save, Moves
  <2>9. CASE Mirror(w)
    <3>1. CASE lock = w
      <4>1. /\ pc[w] = "mirror" /\ pc' = [pc EXCEPT ![w] = "upsert"]
            /\ UNCHANGED <<item, sig, req, writes>>
        BY <2>9, <3>1 DEF Mirror
      <4> QED
        BY <4>1, MovesStep
    <3>2. CASE lock # w
      BY <2>9, <3>2, EndsStep DEF Mirror
    <3> QED
      BY <3>1, <3>2
  <2>10. CASE Upsert(w)
    <3>1. CASE work[w].at + 1 < 2 * Len(req[w].batch)
      <4>1. /\ pc[w] = "upsert" /\ pc' = [pc EXCEPT ![w] = "upsert"]
            /\ writes' = [writes EXCEPT ![w] = writes[w] \cup {NextRow(w)}]
            /\ UNCHANGED <<item, sig, req>>
        BY <2>1, <2>10, <3>1 DEF Upsert
      <4> QED
        BY <4>1, QuietStep
    <3>2. CASE ~ (work[w].at + 1 < 2 * Len(req[w].batch))
      BY <2>10, <3>2, CommitStep DEF Upsert
    <3> QED
      BY <3>1, <3>2
  <2>11. CASE Read(w)
    BY <2>11, EndsStep, MovesStep DEF Read, Moves
  <2>12. CASE Relabel(w)
    <3>1. req[w].item \in Items /\ req[w].label # NoItem.label
      BY <2>12, StoreAssumption DEF Relabel, StoreInv, RequestInv
    <3>2. /\ IsFcn(item', Items)
          /\ \A j \in Items : (item'[j] = NoItem) = (item[j] = NoItem)
      BY <2>12, <3>1, RelabelledKeeps DEF Relabel, StoreInv
    <3>3. /\ sig' = sig /\ IsFcn(sig', Items)
          /\ pc' = [pc EXCEPT ![w] = "append"] /\ UNCHANGED <<req, writes>> /\ pc[w] = "relabel"
      BY <2>12 DEF Relabel, Moves, StoreInv, ShapeInv
    <3> QED
      BY <3>2, <3>3, EditStep
  <2>13. CASE Append_(w)
    BY <2>13, MovesStep DEF Append_, Moves
  <2>14. CASE Member(w)
    BY <2>14, MovesStep DEF Member, Moves
  <2>15. CASE Count(w)
    BY <2>15, EndsStep, MovesStep DEF Count, Moves
  <2>16. CASE WritePurity(w)
    BY <2>16, MovesStep DEF WritePurity, Moves
  <2>17. CASE Outcome(w)
    BY <2>17, EndsStep DEF Outcome
  <2>18. CASE Decide(w)
    <3>1. /\ req[w].item \in Items /\ pc[w] = "decide" /\ pc' = [pc EXCEPT ![w] = "suggest"]
          /\ UNCHANGED <<item, req, writes>> /\ IsFcn(item', Items)
          /\ sig' = [sig EXCEPT ![req[w].item] =
                        IF sig[req[w].item] = NoSig THEN Template(drain.known, req[w].item)
                        ELSE sig[req[w].item]]
      BY <2>18 DEF Decide, Moves, StoreInv, RequestInv, ShapeInv
    <3>2. IsFcn(sig', Items) /\ \A i \in Items : sig[i] # NoSig => sig'[i] # NoSig
      BY <3>1, TemplateNotEmpty DEF StoreInv, ShapeInv, IsFcn
    <3> QED
      BY <3>1, <3>2, EditStep
  <2>19. CASE Suggest(w)
    BY <2>19, MovesStep DEF Suggest, Moves
  <2>20. CASE AutoLabel(w)
    <3>1. req[w].item \in Items /\ req[w].verdict.label # NoItem.label
      BY <2>20, StoreAssumption DEF AutoLabel, StoreInv, RequestInv
    <3>2. /\ IsFcn(item', Items)
          /\ \A j \in Items : (item'[j] = NoItem) = (item[j] = NoItem)
      BY <2>20, <3>1, RelabelledKeeps DEF AutoLabel, StoreInv
    <3>3. /\ sig' = sig /\ IsFcn(sig', Items)
          /\ pc' = [pc EXCEPT ![w] = "join"] /\ UNCHANGED <<req, writes>> /\ pc[w] = "auto"
      BY <2>20 DEF AutoLabel, Moves, StoreInv, ShapeInv
    <3> QED
      BY <3>2, <3>3, EditStep
  <2>21. CASE Join(w)
    BY <2>21, EndsStep DEF Join
  <2> QED
    BY <1>4, <2>4, <2>5, <2>6, <2>7, <2>8, <2>9, <2>10, <2>11, <2>12, <2>13, <2>14, <2>15, <2>16,
       <2>17, <2>18, <2>19, <2>20, <2>21, StartStep, PurgeStep, EraseStep DEF Request
<1> QED
  BY <1>2, <1>3, <1>4 DEF Next

(* For any workers, items and batches: whatever fails, whoever is a        *)
(* deadlock victim and however the statements interleave, readers see the  *)
(* index as the catalogue, never an item without its signature or half a   *)
(* batch (_index_project, _purge_items, delete_project).                   *)
THEOREM StoreIsCatalogue == Spec => IsCatalogue
<1>1. Init => C!Init
  <2>1. StoreInv => Shelf \in [Items -> {"absent", "whole"}]
    BY DEF StoreInv, WholeInv, Shelf
  <2> QED
    BY <2>1, InitStore DEF C!Init
<1>2. StoreInv /\ [Next]_vars => [C!Next]_Shelf
  BY NextStore DEF C!Next
<1>3. StoreInv /\ [Next]_vars => StoreInv'
  BY NextStore
<1> QED
  BY <1>1, <1>2, <1>3, InitStore, PTL DEF Spec, IsCatalogue, C!Spec

-----------------------------------------------------------------------------
(* The reaper.  A tombstone is no older than the unbroken run of passes    *)
(* that found its item gone.                                               *)
ReaperInv ==
    /\ tomb \in [Items -> Int] /\ missed \in [Items -> Int] /\ day \in Nat
    /\ \A i \in Items : /\ missed[i] <= day
                        /\ tomb[i] # NoDay => missed[i] # NoDay /\ missed[i] <= tomb[i]

(* Requests neither purge label events nor touch the reaper's state. *)
LEMMA RequestsLeaveReaper ==
    ASSUME NEW w \in Workers, Request(w)
    PROVE  UNCHANGED <<tomb, missed, day>> /\ events \subseteq events'
BY DEF Request, Start, Fail, Victim, Ends, Moves, Lock, LockLost, Load, Save, Mirror, Upsert, Commit,
       Purge, Erase, Read, Relabel, Append_, Member, Count, WritePurity, Outcome, Decide, Suggest,
       AutoLabel, Join, tables

(* The invariant is inductive. *)
LEMMA ReaperInvHolds == Spec => []ReaperInv
<1>1. Init => ReaperInv
  BY DEF Init, ReaperInv, NoDay
<1>2. ReaperInv /\ [Next]_vars => ReaperInv'
  <2> SUFFICES ASSUME ReaperInv, [Next]_vars PROVE ReaperInv'
    OBVIOUS
  <2>1. CASE UNCHANGED <<tomb, missed, day>>
    BY <2>1 DEF ReaperInv
  <2>2. CASE Mark
    BY <2>2 DEF Mark, ReaperInv, NoDay
  <2>3. CASE Sweep
    BY <2>3 DEF Sweep, ReaperInv, NoDay
  <2> QED
    BY <2>1, <2>2, <2>3, RequestsLeaveReaper DEF Next, vars, tables
<1> QED
  BY <1>1, <1>2, PTL DEF Spec

(* For any grace period, workers and items: whatever deletes and rebuilds  *)
(* an item between two passes, its label events are purged only when it is *)
(* gone at that statement and every pass of more than the grace period     *)
(* found it gone (reap_orphan_label_events, retrieval.py:363-447).         *)
THEOREM ReaperSparesReindexed == Spec => HistoryKept
<1> DEFINE Lost == \A e \in events \ events' :
                      e.item \notin Present /\ missed[e.item] # NoDay /\ missed[e.item] < day - Grace
<1>1. ReaperInv /\ [Next]_vars => [Lost]_vars
  <2> SUFFICES ASSUME ReaperInv, Next, NEW e \in events \ events'
               PROVE  e.item \notin Present /\ missed[e.item] # NoDay /\ missed[e.item] < day - Grace
    OBVIOUS
  <2>1. Sweep
    BY RequestsLeaveReaper DEF Next, Mark
  <2>2. e.item \in Expired
    BY <2>1 DEF Sweep
  <2> QED
    BY <2>2, StoreAssumption DEF Expired, ReaperInv, NoDay
<1> QED
  BY <1>1, ReaperInvHolds, PTL DEF Spec, HistoryKept

-----------------------------------------------------------------------------
(* The miner.  A load that can be trusted is of a version there has been   *)
(* since the last deletion, and knows all that its version knows.          *)
MinerInv ==
    /\ DOMAIN pc = Workers /\ DOMAIN work = Workers
    /\ \A w \in Workers : DOMAIN work[w] = DOMAIN NoWork
    /\ drain.ver \in Nat /\ (drain.ver = 0 => drain.known = {})
    /\ \A w \in Workers : pc[w] = "save" /\ work[w].trusted =>
          /\ work[w].ver \in Nat /\ work[w].ver <= drain.ver
          /\ work[w].ver = drain.ver => drain.known \subseteq work[w].known

(* A step of one worker leaves the place of the others, and their locals   *)
(* but for the trust that a deletion of the project takes away.            *)
LEMMA MinersApart ==
    ASSUME MinerInv, NEW w \in Workers, Request(w)
    PROVE  /\ DOMAIN pc' = Workers /\ DOMAIN work' = Workers
           /\ \A v \in Workers : DOMAIN work'[v] = DOMAIN NoWork
           /\ \A v \in Workers \ {w} :
                  /\ pc'[v] = pc[v] /\ work'[v].ver = work[v].ver /\ work'[v].known = work[v].known
                  /\ work'[v].trusted => work[v].trusted
<1> USE DEF MinerInv
<1>0. DOMAIN NoWork = {"known", "ver", "tries", "at", "trusted", "old", "count"}
  BY DEF NoWork
<1>1. CASE Start(w) \/ Lock(w) \/ LockLost(w) \/ Purge(w)
  BY <1>1 DEF Start, Lock, LockLost, Purge, Moves
<1>2. CASE Fail(w) \/ Victim(w) \/ Outcome(w) \/ Join(w)
  BY <1>2 DEF Fail, Victim, Outcome, Join, Ends
<1>3. CASE Load(w)
  BY <1>3 DEF Load, Moves
<1>4. CASE Save(w)
  BY <1>4 DEF Save, Moves, Ends
<1>5. CASE Mirror(w)
  BY <1>5 DEF Mirror, Ends
<1>6. CASE Upsert(w)
  BY <1>6 DEF Upsert, Commit, Ends
<1>7. CASE Erase(w)
  <2>1. pc' = [pc EXCEPT ![w] = "idle"]
    BY <1>7 DEF Erase
  <2>2. CASE req[w].kind = "delete"
    <3>1. work' = [v \in Workers |-> [[work EXCEPT ![w] = NoWork][v] EXCEPT !.trusted = FALSE]]
      BY <1>7, <2>2 DEF Erase
    <3>2. \A v \in Workers : DOMAIN work'[v] = DOMAIN NoWork /\ ~ work'[v].trusted
      BY <3>1, <1>0
    <3>3. \A v \in Workers \ {w} : work'[v] = [work[v] EXCEPT !.trusted = FALSE]
      BY <3>1
    <3> QED
      BY <2>1, <3>1, <3>2, <3>3, <1>0
  <2>3. CASE req[w].kind # "delete"
    BY <1>7, <2>1, <2>3 DEF Erase
  <2> QED
    BY <2>2, <2>3
<1>8. CASE Read(w) \/ Count(w)
  BY <1>8 DEF Read, Count, Moves, Ends
<1>9. CASE Relabel(w) \/ Append_(w) \/ Member(w) \/ WritePurity(w) \/ Decide(w) \/ Suggest(w) \/ AutoLabel(w)
  BY <1>9 DEF Relabel, Append_, Member, WritePurity, Decide, Suggest, AutoLabel, Moves
<1> QED
  BY <1>1, <1>2, <1>3, <1>4, <1>5, <1>6, <1>7, <1>8, <1>9 DEF Request

(* The invariant is inductive. *)
LEMMA MinerInvHolds == Spec => []MinerInv
<1>1. Init => MinerInv
  <2> SUFFICES ASSUME Init PROVE MinerInv
    OBVIOUS
  <2>1. PICK warm \in {{}} \cup {{i} : i \in Items} : drain = [known |-> warm, ver |-> Cardinality(warm)]
    BY DEF Init
  <2>2. CASE warm = {}
    BY <2>1, <2>2, FS_EmptySet DEF Init, MinerInv
  <2>3. CASE warm # {}
    <3>1. PICK i \in Items : warm = {i}
      BY <2>3
    <3>2. drain.ver = 1
      BY <2>1, <3>1, FS_Singleton
    <3> QED
      BY <3>2 DEF Init, MinerInv
  <2> QED
    BY <2>2, <2>3
<1>2. MinerInv /\ [Next]_vars => MinerInv'
  <2> SUFFICES ASSUME MinerInv, [Next]_vars PROVE MinerInv'
    OBVIOUS
  <2>1. CASE UNCHANGED <<pc, work, drain>>
    BY <2>1 DEF MinerInv
  <2>2. ASSUME NEW w \in Workers, Request(w) PROVE MinerInv'
    <3>1. /\ DOMAIN pc' = Workers /\ DOMAIN work' = Workers
          /\ \A v \in Workers : DOMAIN work'[v] = DOMAIN NoWork
          /\ \A v \in Workers \ {w} :
                 /\ pc'[v] = pc[v] /\ work'[v].ver = work[v].ver /\ work'[v].known = work[v].known
                 /\ work'[v].trusted => work[v].trusted
      BY <2>2, MinersApart
    <3>0. DOMAIN NoWork = {"known", "ver", "tries", "at", "trusted", "old", "count"}
      BY DEF NoWork
    <3>2. CASE Load(w)
      <4>1. drain' = drain
        BY <3>2 DEF Load, tables
      <4>2. PICK readable \in BOOLEAN :
              work' = [work EXCEPT ![w] =
                         [work[w] EXCEPT !.ver = drain.ver, !.trusted = readable,
                            !.known = IF readable /\ drain.ver > 0 THEN drain.known ELSE Rebuilt(mirror)]]
        BY <3>2 DEF Load
      <4>3. work'[w] = [work[w] EXCEPT !.ver = drain.ver, !.trusted = readable,
                          !.known = IF readable /\ drain.ver > 0 THEN drain.known ELSE Rebuilt(mirror)]
        BY <4>2 DEF MinerInv
      <4>4. /\ work'[w].ver = drain.ver /\ work'[w].trusted = readable
            /\ work'[w].known = IF readable /\ drain.ver > 0 THEN drain.known ELSE Rebuilt(mirror)
        BY <3>0, <4>3 DEF MinerInv
      <4>5. work'[w].trusted => drain.known \subseteq work'[w].known
        BY <4>4 DEF MinerInv
      <4>6. work'[w].ver \in Nat /\ work'[w].ver = drain.ver
        BY <4>4 DEF MinerInv
      <4> QED
        BY <3>1, <4>1, <4>5, <4>6 DEF MinerInv
    <3>3. CASE Save(w)
      <4>1. CASE CasAllows(w)
        <5>1. drain' = [known |-> Learnt(w), ver |-> drain.ver + 1] /\ pc' = [pc EXCEPT ![w] = "mirror"]
          BY <3>3, <4>1 DEF Save, Moves
        <5>2. pc'[w] # "save"
          BY <5>1 DEF MinerInv
        <5> QED
          BY <3>1, <5>1, <5>2 DEF MinerInv
      <4>2. CASE ~CasAllows(w)
        <5>1. drain' = drain /\ pc'[w] # "save"
          BY <3>3, <4>2 DEF Save, Moves, Ends, MinerInv
        <5> QED
          BY <3>1, <5>1 DEF MinerInv
      <4> QED
        BY <4>1, <4>2
    <3>4. CASE Erase(w)
      <4>1. pc'[w] # "save"
        BY <3>4 DEF Erase, MinerInv
      <4>2. CASE req[w].kind = "delete"
        <5>1. /\ drain' = [known |-> {}, ver |-> 0]
              /\ work' = [v \in Workers |-> [[work EXCEPT ![w] = NoWork][v] EXCEPT !.trusted = FALSE]]
          BY <3>4, <4>2 DEF Erase
        <5>2. \A v \in Workers \ {w} : work'[v] = [work[v] EXCEPT !.trusted = FALSE]
          BY <5>1
        <5>3. \A v \in Workers \ {w} : ~ work'[v].trusted
          BY <3>0, <5>2 DEF MinerInv
        <5> QED
          BY <3>1, <4>1, <5>1, <5>3 DEF MinerInv
      <4>3. CASE req[w].kind # "delete"
        <5>1. drain' = drain
          BY <3>4, <4>3 DEF Erase
        <5> QED
          BY <3>1, <4>1, <5>1 DEF MinerInv
      <4> QED
        BY <4>2, <4>3
    <3>5. CASE LockLost(w)
      BY <2>1, <3>5 DEF LockLost, tables
    <3>6. CASE Start(w)
      <4>1. drain' = drain /\ work' = work
        BY <3>6 DEF Start, tables
      <4>2. pc'[w] # "save"
        BY <3>6 DEF Start, FirstStep, MinerInv
      <4> QED
        BY <3>1, <4>1, <4>2 DEF MinerInv
    <3>7. CASE ~(Load(w) \/ Save(w) \/ Erase(w) \/ LockLost(w) \/ Start(w))
      <4>1. drain' = drain
        BY <2>2, <3>7 DEF Request, Fail, Victim, Lock, Mirror, Upsert, Commit, Purge, Read, Relabel,
             Append_, Member, Count, WritePurity, Outcome, Decide, Suggest, AutoLabel, Join, tables
      <4>2. pc'[w] # "save"
        BY <2>2, <3>7 DEF MinerInv, Request, Fail, Victim, Ends, Moves, Lock, Mirror, Upsert, Commit,
             Purge, Read, Relabel, Append_, Member, Count, WritePurity, Outcome, Decide, Suggest,
             AutoLabel, Join
      <4> QED
        BY <3>1, <4>1, <4>2 DEF MinerInv
    <3> QED
      BY <3>2, <3>3, <3>4, <3>5, <3>6, <3>7
  <2> QED
    BY <2>1, <2>2 DEF Next, Mark, Sweep, Reaped, vars, tables
<1> QED
  BY <1>1, <1>2, PTL DEF Spec

(* For any workers, shapes and retries: with the advisory lock lost while  *)
(* a batch was mined, and saves of others in between, the version check    *)
(* alone keeps a save from forgetting a message that the state it replaces *)
(* had learnt (save, drain3_state.py:20-84).                               *)
THEOREM SaveForgetsNothing == Spec => MinedKept
<1> DEFINE Kept_ == \A w \in Workers : pc[w] = "save" /\ pc'[w] = "mirror" /\ work[w].trusted
                        => drain.known \subseteq drain'.known
<1>1. MinerInv /\ [Next]_vars => [Kept_]_vars
  <2> SUFFICES ASSUME MinerInv, Next, NEW w \in Workers,
                      pc[w] = "save", pc'[w] = "mirror", work[w].trusted
               PROVE  drain.known \subseteq drain'.known
    OBVIOUS
  <2>1. PICK v \in Workers : Request(v)
    BY DEF Next, Mark, Sweep, Reaped
  <2>2. v = w
    BY <2>1, MinersApart
  <2>3. Save(w)
    BY <2>1, <2>2 DEF MinerInv, Request, Start, FirstStep, Fail, Victim, Ends, Moves, Lock, LockLost, Load,
         Mirror, Upsert, Commit, Purge, Erase, Read, Relabel, Append_, Member, Count, WritePurity, Outcome,
         Decide, Suggest, AutoLabel, Join
  <2>4. CasAllows(w) /\ drain' = [known |-> Learnt(w), ver |-> drain.ver + 1]
    BY <2>3 DEF Save, Moves, Ends, MinerInv
  <2>5. drain.known \subseteq work[w].known
    BY <2>4 DEF CasAllows, MinerInv
  <2> QED
    BY <2>4, <2>5 DEF Learnt
<1> QED
  BY <1>1, MinerInvHolds, PTL DEF Spec, MinedKept

-----------------------------------------------------------------------------
(* Feedback.  Where a request is says what it is, and one that is over     *)
(* holds no row.                                                           *)
KindInv ==
    /\ IsFcn(work, Workers) /\ IsFcn(alone, Workers)
    /\ \A w \in Workers :
        /\ pc[w] = "idle" => req[w] = Idle /\ writes[w] = {}
        /\ pc[w] \in IndexAt => req[w].kind = "index"
        /\ pc[w] \in AnalyzeAt => req[w].kind = "analyze"
        /\ pc[w] \in DefectAt => req[w].kind = "defect_update"
        /\ DOMAIN work[w] = DOMAIN NoWork

(* Who is alone is alone. *)
AloneInv == \A w \in Workers : alone[w] => \A v \in Workers \ {w} : pc[v] = "idle"

(* Events are numbered as they are appended. *)
LogInv ==
    /\ eventsMade \in Nat /\ faults \in Nat
    /\ \A e \in events : e.n \in Nat /\ e.n <= eventsMade
    /\ \A e, f \in events : e.n = f.n => e = f

(* A mode with members is there, and no count is mistaken for a mode that is not. *)
ModeInv ==
    /\ IsFiniteSet(mem)
    /\ mem # {} => mode # NoMode
    /\ \A w \in Workers : pc[w] = "purity" => work[w].count # NoMode

(* A suggestion row has an outcome. *)
SugInv == \A r \in sug : "outcome" \in DOMAIN r

(* What a defect_update that nobody overlaps has done when it is at p. *)
Done(w, p) ==
    LET i == req[w].item IN
    item[i] # NoItem =>
        /\ p \in {"append", "member", "count", "purity", "outcome"}
              => item[i] = [label |-> req[w].label, auto |-> FALSE]
        /\ p \in {"member", "count", "purity", "outcome"}
              => \E e \in events : e.item = i /\ e.new = req[w].label /\ e.n = eventsMade
        /\ p \in {"count", "purity"} => i \in mem
        /\ p = "purity" => work[w].count = Purity(item, mem)
        /\ p = "outcome" /\ i \in mem => mode = Purity(item, mem)

DoneInv == \A w \in Workers : alone[w] /\ pc[w] \in DefectAt => Done(w, pc[w])

FeedbackInv == KindInv /\ AloneInv /\ LogInv /\ ModeInv /\ SugInv /\ DoneInv

(* A step of one worker leaves what the others hold. *)
LEMMA WorkersApart ==
    ASSUME StoreInv, KindInv, NEW w \in Workers, Request(w)
    PROVE  /\ IsFcn(work', Workers)
           /\ \A v \in Workers : DOMAIN work'[v] = DOMAIN NoWork
           /\ \A v \in Workers \ {w} : /\ pc'[v] = pc[v] /\ req'[v] = req[v] /\ writes'[v] = writes[v]
                                      /\ work'[v].count = work[v].count
<1> USE DEF IsFcn
<1>0. /\ IsFcn(pc, Workers) /\ IsFcn(req, Workers) /\ IsFcn(writes, Workers) /\ IsFcn(work, Workers)
      /\ \A v \in Workers : DOMAIN work[v] = DOMAIN NoWork
      /\ DOMAIN NoWork = {"known", "ver", "tries", "at", "trusted", "old", "count"}
  BY DEF StoreInv, ShapeInv, KindInv, NoWork
<1>1. CASE Start(w) \/ Lock(w) \/ LockLost(w) \/ Purge(w)
  BY <1>0, <1>1 DEF Start, Lock, LockLost, Purge, Moves
<1>2. CASE Fail(w) \/ Victim(w) \/ Outcome(w) \/ Join(w)
  BY <1>0, <1>2 DEF Fail, Victim, Outcome, Join, Ends
<1>3. CASE Load(w)
  BY <1>0, <1>3 DEF Load, Moves
<1>4. CASE Save(w)
  BY <1>0, <1>4 DEF Save, Moves, Ends
<1>5. CASE Mirror(w)
  BY <1>0, <1>5 DEF Mirror, Ends
<1>6. CASE Upsert(w)
  BY <1>0, <1>6 DEF Upsert, Commit, Ends
<1>7. CASE Erase(w)
  <2>1. /\ pc' = [pc EXCEPT ![w] = "idle"] /\ req' = [req EXCEPT ![w] = Idle]
        /\ writes' = [writes EXCEPT ![w] = {}]
    BY <1>7 DEF Erase
  <2>2. CASE req[w].kind = "delete"
    <3>1. work' = [v \in Workers |-> [[work EXCEPT ![w] = NoWork][v] EXCEPT !.trusted = FALSE]]
      BY <1>7, <2>2 DEF Erase
    <3>2. \A v \in Workers : DOMAIN work'[v] = DOMAIN NoWork
      BY <3>1, <1>0
    <3>3. \A v \in Workers \ {w} : work'[v] = [work[v] EXCEPT !.trusted = FALSE]
      BY <3>1, <1>0
    <3>4. \A v \in Workers \ {w} : work'[v].count = work[v].count
      BY <3>3, <1>0
    <3> QED
      BY <1>0, <2>1, <3>1, <3>2, <3>4
  <2>3. CASE req[w].kind # "delete"
    BY <1>0, <1>7, <2>1, <2>3 DEF Erase
  <2> QED
    BY <2>2, <2>3
<1>8. CASE Read(w) \/ Count(w)
  BY <1>0, <1>8 DEF Read, Count, Moves, Ends
<1>9. CASE Relabel(w) \/ Append_(w) \/ Member(w) \/ WritePurity(w) \/ Decide(w) \/ Suggest(w) \/ AutoLabel(w)
  BY <1>0, <1>9 DEF Relabel, Append_, Member, WritePurity, Decide, Suggest, AutoLabel, Moves
<1> QED
  BY <1>1, <1>2, <1>3, <1>4, <1>5, <1>6, <1>7, <1>8, <1>9 DEF Request

(* Only a request that starts changes who is alone, and it is alone, if at *)
(* all, itself.                                                            *)
LEMMA AloneStep ==
    ASSUME KindInv, NEW w \in Workers, Request(w)
    PROVE  /\ IsFcn(alone', Workers)
           /\ \/ alone' = alone /\ ~Start(w)
              \/ /\ Start(w) /\ \A v \in Workers \ {w} : ~alone'[v]
                 /\ alone'[w] => \A v \in Workers \ {w} : pc[v] = "idle"
<1>1. CASE Start(w)
  <2>1. alone' = [v \in Workers |->
          v = w /\ req'[w].kind = "defect_update" /\ \A u \in Workers \ {w} : pc[u] = "idle"]
    BY <1>1 DEF Start
  <2> QED
    BY <1>1, <2>1 DEF IsFcn
<1>2. CASE ~Start(w)
  <2>1. alone' = alone
    BY <1>2 DEF Request, Fail, Victim, Ends, Moves, Lock, LockLost, Load, Save, Mirror, Upsert, Commit,
         Purge, Erase, Read, Relabel, Append_, Member, Count, WritePurity, Outcome, Decide, Suggest,
         AutoLabel, Join
  <2> QED
    BY <1>2, <2>1 DEF KindInv
<1> QED
  BY <1>1, <1>2

(* A worker without a request can only take one, or have lost a lock. *)
LEMMA IdleStep ==
    ASSUME NEW w \in Workers, Request(w), pc[w] = "idle"
    PROVE  Start(w) \/ LockLost(w)
<1>1. ~Victim(w)
  BY DEF Victim, WaitsFor, Wanted
<1> QED
  BY <1>1 DEF Request, Fail, Lock, Load, Save, Mirror, Upsert, Purge, Erase, Read, Relabel, Append_,
       Member, Count, WritePurity, Outcome, Decide, Suggest, AutoLabel, Join

(* The kinds stay with the places. *)
LEMMA KindStep ==
    ASSUME StoreInv, KindInv, NEW w \in Workers, Request(w)
    PROVE  KindInv'
<1> DEFINE Fits(p, r, x) == /\ p = "idle" => r = Idle /\ x = {}
                            /\ p \in IndexAt => r.kind = "index"
                            /\ p \in AnalyzeAt => r.kind = "analyze"
                            /\ p \in DefectAt => r.kind = "defect_update"
<1>1. IsFcn(pc, Workers) /\ IsFcn(req, Workers) /\ IsFcn(writes, Workers)
      /\ pc[w] \in {"idle"} \cup IndexAt \cup DeleteAt \cup DefectAt \cup AnalyzeAt
      /\ Fits(pc[w], req[w], writes[w])
  BY DEF StoreInv, ShapeInv, RequestInv, KindInv
<1>2. SUFFICES Fits(pc'[w], req'[w], writes'[w])
  BY WorkersApart, AloneStep DEF KindInv
<1> USE DEF IsFcn
<1>3. CASE pc' = [pc EXCEPT ![w] = "idle"] /\ req' = [req EXCEPT ![w] = Idle]
           /\ writes' = [writes EXCEPT ![w] = {}]
  BY <1>1, <1>3 DEF IndexAt, AnalyzeAt, DefectAt
<1>4. CASE Ends(w)
  BY <1>3, <1>4 DEF Ends
<1>5. CASE Start(w)
  <2>1. PICK r \in Asks : /\ req' = [req EXCEPT ![w] = r]
                          /\ pc' = [pc EXCEPT ![w] = FirstStep(r.kind)]
    BY <1>5 DEF Start
  <2>2. req'[w] = r /\ pc'[w] = FirstStep(r.kind)
    BY <1>1, <2>1
  <2> QED
    BY <2>2 DEF FirstStep, IndexAt, AnalyzeAt, DefectAt
<1>6. CASE \E p : /\ pc' = [pc EXCEPT ![w] = p] /\ req' = req
                  /\ \/ p \in IndexAt /\ pc[w] \in IndexAt
                     \/ p \in DeleteAt /\ pc[w] \in DeleteAt
                     \/ p \in DefectAt /\ pc[w] \in DefectAt
                     \/ p \in AnalyzeAt /\ pc[w] \in AnalyzeAt
  <2>1. PICK p : /\ pc' = [pc EXCEPT ![w] = p] /\ req' = req
                 /\ \/ p \in IndexAt /\ pc[w] \in IndexAt
                    \/ p \in DeleteAt /\ pc[w] \in DeleteAt
                    \/ p \in DefectAt /\ pc[w] \in DefectAt
                    \/ p \in AnalyzeAt /\ pc[w] \in AnalyzeAt
    BY <1>6
  <2>2. pc'[w] = p /\ req'[w] = req[w]
    BY <1>1, <2>1
  <2> QED
    BY <1>1, <2>1, <2>2 DEF IndexAt, DeleteAt, DefectAt, AnalyzeAt
<1>7. CASE UNCHANGED <<pc, req, writes>>
  BY <1>1, <1>7
<1> USE DEF IndexAt, DeleteAt, DefectAt, AnalyzeAt
<1>8. CASE Fail(w) \/ Victim(w) \/ Outcome(w) \/ Join(w)
  BY <1>4, <1>8 DEF Fail, Victim, Outcome, Join
<1>9. CASE Lock(w) \/ Load(w) \/ Purge(w) \/ Relabel(w) \/ Append_(w) \/ WritePurity(w) \/ Decide(w)
           \/ AutoLabel(w)
  BY <1>6, <1>9 DEF Lock, Load, Purge, Relabel, Append_, WritePurity, Decide, AutoLabel, Moves
<1>10. CASE Member(w) \/ Suggest(w)
  BY <1>6, <1>10 DEF Member, Suggest, Moves
<1>11. CASE Save(w)
  BY <1>4, <1>6, <1>11 DEF Save, Moves
<1>12. CASE Mirror(w)
  <2>1. Ends(w) \/ (pc' = [pc EXCEPT ![w] = "upsert"] /\ req' = req /\ pc[w] = "mirror")
    BY <1>12 DEF Mirror
  <2> QED
    BY <1>4, <1>6, <2>1
<1>13. CASE Upsert(w)
  <2>1. Ends(w) \/ (pc' = pc /\ req' = req /\ pc[w] = "upsert")
    BY <1>13 DEF Upsert, Commit
  <2> QED
    BY <1>1, <1>4, <2>1
<1>14. CASE Read(w) \/ Count(w)
  BY <1>4, <1>6, <1>14 DEF Read, Count, Moves
<1>15. CASE Erase(w)
  BY <1>3, <1>15 DEF Erase
<1>16. CASE LockLost(w)
  BY <1>7, <1>16 DEF LockLost
<1> HIDE DEF Fits
<1> QED
  BY <1>5, <1>8, <1>9, <1>10, <1>11, <1>12, <1>13, <1>14, <1>15, <1>16 DEF Request

(* A count of finitely many members is no missing mode. *)
LEMMA PurityIsACount ==
    ASSUME NEW items, NEW members, IsFiniteSet(members)
    PROVE  Purity(items, members) # NoMode
<1> DEFINE labelled == {i \in members : items[i] # NoItem}
<1>1. labelled \subseteq members
  OBVIOUS
<1>2. \E most : Purity(items, members) = <<most, Cardinality(labelled)>>
  BY DEF Purity
<1> HIDE DEF labelled
<1>3. Cardinality(labelled) \in Nat
  BY <1>1, FS_Subset, FS_CardinalityType
<1> QED
  BY <1>2, <1>3 DEF NoMode

(* Members come only to a mode that is there, and leave with it. *)
LEMMA ModeStep ==
    ASSUME StoreInv, KindInv, ModeInv, NEW w \in Workers, Request(w)
    PROVE  ModeInv'
<1>1. \A v \in Workers \ {w} : pc'[v] = pc[v] /\ work'[v].count = work[v].count
  BY WorkersApart
<1>2. /\ IsFcn(pc, Workers) /\ IsFcn(work, Workers) /\ DOMAIN work[w] = DOMAIN NoWork
      /\ DOMAIN NoWork = {"known", "ver", "tries", "at", "trusted", "old", "count"}
  BY DEF StoreInv, ShapeInv, KindInv, NoWork
<1>3. SUFFICES /\ IsFiniteSet(mem') /\ (mem' # {} => mode' # NoMode)
               /\ pc'[w] = "purity" => work'[w].count # NoMode
  BY <1>1 DEF ModeInv
<1> USE DEF IsFcn
<1>4. CASE Count(w)
  <2>1. UNCHANGED <<mem, mode>>
    BY <1>4 DEF Count, tables
  <2>2. CASE pc'[w] = "purity"
    <3>1. mode # NoMode
      BY <1>2, <1>4, <2>2 DEF Count, Ends
    <3>2. work' = [work EXCEPT ![w] = [work[w] EXCEPT !.count = Purity(item, mem)]]
      BY <1>4, <3>1 DEF Count
    <3>3. work'[w].count = Purity(item, mem)
      BY <1>2, <3>2
    <3>4. Purity(item, mem) # NoMode
      BY PurityIsACount DEF ModeInv
    <3> QED
      BY <2>1, <3>3, <3>4 DEF ModeInv
  <2> QED
    BY <2>1, <2>2 DEF ModeInv
<1>5. CASE WritePurity(w)
  <2>1. pc[w] = "purity" /\ mem' = mem /\ (mode' = mode \/ mode' = work[w].count)
        /\ pc' = [pc EXCEPT ![w] = "outcome"]
    BY <1>5 DEF WritePurity, Moves
  <2> QED
    BY <1>2, <2>1 DEF ModeInv
<1>6. CASE Erase(w)
  <2>1. pc'[w] = "idle"
    BY <1>2, <1>6 DEF Erase
  <2>2. mem' = {} \/ (mem' \subseteq mem /\ mode' = mode)
    BY <1>6 DEF Erase
  <2>3. IsFiniteSet(mem')
    BY <2>2, FS_EmptySet, FS_Subset DEF ModeInv
  <2> QED
    BY <2>1, <2>2, <2>3 DEF ModeInv
<1>7. CASE Decide(w)
  <2>1. mem' = mem /\ pc'[w] = "suggest" /\ (mode' = mode \/ mode' = <<0, 0>>)
    BY <1>2, <1>7 DEF Decide, Moves
  <2> QED
    BY <2>1 DEF ModeInv, NoMode
<1>8. CASE Join(w)
  <2>1. mode' = mode /\ pc'[w] = "idle"
    BY <1>2, <1>8 DEF Join, Ends
  <2>2. mem' = mem \/ (mem' = mem \cup {req[w].item} /\ mode # NoMode)
    BY <1>8 DEF Join, Joins
  <2>3. IsFiniteSet(mem')
    BY <2>2, FS_AddElement DEF ModeInv
  <2> QED
    BY <2>1, <2>2, <2>3 DEF ModeInv
<1>9. CASE ~(Count(w) \/ WritePurity(w) \/ Erase(w) \/ Decide(w) \/ Join(w))
  <2>1. UNCHANGED <<mem, mode>>
    BY <1>9 DEF Request, Start, Fail, Victim, Lock, LockLost, Load, Save, Mirror, Upsert, Commit,
         Purge, Read, Relabel, Append_, Member, Outcome, Suggest, AutoLabel, tables
  <2>2. pc'[w] = "purity" => pc[w] = "purity" /\ work' = work
    <3>1. CASE Start(w)
      BY <1>2, <3>1 DEF Start, FirstStep
    <3>2. CASE ~Start(w)
      BY <1>2, <1>9, <3>2 DEF Request, Fail, Victim, Ends, Moves, Lock, LockLost, Load, Save, Mirror,
           Upsert, Commit, Purge, Read, Relabel, Append_, Member, Outcome, Suggest, AutoLabel
    <3> QED
      BY <3>1, <3>2
  <2> QED
    BY <2>1, <2>2 DEF ModeInv
<1> QED
  BY <1>4, <1>5, <1>6, <1>7, <1>8, <1>9

(* The log grows by events with new numbers. *)
LEMMA LogStep ==
    ASSUME LogInv, Next
    PROVE  LogInv'
<1>0. faults' \in Nat
  <2>1. ASSUME NEW w \in Workers, Request(w) PROVE faults' \in {faults, faults + 1}
    BY <2>1 DEF Request, Start, Fail, Victim, Ends, Moves, Lock, LockLost, Load, Save, Mirror, Upsert,
         Commit, Purge, Erase, Read, Relabel, Append_, Member, Count, WritePurity, Outcome, Decide,
         Suggest, AutoLabel, Join, counters
  <2> QED
    BY <2>1 DEF Next, Mark, Sweep, Reaped, counters, LogInv
<1>1. CASE \E w \in Workers : Append_(w)
  <2>1. PICK w \in Workers :
            /\ events' = events \cup {[n |-> eventsMade + 1, item |-> req[w].item,
                                      old |-> work[w].old, new |-> req[w].label]}
            /\ eventsMade' = eventsMade + 1
    BY <1>1 DEF Append_
  <2> QED
    BY <1>0, <2>1 DEF LogInv
<1>2. CASE events' \subseteq events /\ eventsMade' = eventsMade
  BY <1>0, <1>2 DEF LogInv
<1>3. ASSUME NEW w \in Workers, Request(w), ~Append_(w)
      PROVE  UNCHANGED <<events, eventsMade>>
  BY <1>3 DEF Request, Start, Fail, Victim, Ends, Moves, Lock, LockLost, Load, Save, Mirror, Upsert, Commit,
       Purge, Erase, Read, Relabel, Member, Count, WritePurity, Outcome, Decide, Suggest,
       AutoLabel, Join, tables, counters
<1>4. CASE Mark \/ Sweep
  BY <1>2, <1>4 DEF Mark, Sweep, Reaped, counters
<1> QED
  BY <1>1, <1>2, <1>3, <1>4 DEF Next

(* What an update that is alone has done stays done: no one else moves,    *)
(* and its own steps do one thing after the other.                         *)
LEMMA DoneStep ==
    ASSUME StoreInv, FeedbackInv, NEW w \in Workers, Request(w)
    PROVE  DoneInv' /\ AloneInv'
<1> USE DEF FeedbackInv
<1>1. \A v \in Workers \ {w} : pc'[v] = pc[v] /\ req'[v] = req[v]
  BY WorkersApart
<1>2. AloneInv'
  BY <1>1, AloneStep, IdleStep DEF AloneInv, LockLost
<1>3. ASSUME NEW v \in Workers \ {w}, alone'[v], pc'[v] \in DefectAt
      PROVE  Done(v, pc[v])'
  <2>1. ~Start(w) /\ alone[v]
    BY <1>3, AloneStep
  <2>2. pc[w] = "idle"
    BY <2>1 DEF AloneInv
  <2>3. LockLost(w)
    BY <2>1, <2>2, IdleStep
  <2>4. UNCHANGED <<req, item, events, eventsMade, mem, mode, work, pc>>
    BY <2>3 DEF LockLost, tables
  <2>5. Done(v, pc[v])
    BY <1>3, <2>1, <2>4 DEF DoneInv
  <2> QED
    BY <2>4, <2>5 DEF Done
<1>4. ASSUME alone'[w], pc'[w] \in DefectAt
      PROVE  Done(w, pc[w])'
  <2>0. /\ IsFcn(pc, Workers) /\ IsFcn(req, Workers) /\ IsFcn(item, Items) /\ IsFcn(work, Workers)
        /\ DOMAIN work[w] = DOMAIN NoWork
        /\ DOMAIN NoWork = {"known", "ver", "tries", "at", "trusted", "old", "count"}
    BY DEF StoreInv, ShapeInv, KindInv, NoWork
  <2> DEFINE i == req[w].item
  <2> USE DEF IsFcn
  <2>1. CASE Start(w)
    <3>1. pc'[w] \in {"lock", "read", "decide", "purge"}
      BY <2>0, <2>1 DEF Start, FirstStep
    <3> QED
      BY <3>1 DEF Done
  <2>2. CASE ~Start(w)
    <3>1. alone[w]
      BY <1>4, <2>2, AloneStep
    <3>2. CASE pc[w] \in DefectAt
      <4>0. Done(w, pc[w]) /\ i \in Items
        BY <3>1, <3>2 DEF DoneInv, StoreInv, RequestInv
      <4>1. CASE Read(w)
        <5>1. pc'[w] \in {"idle", "relabel"}
          BY <2>0, <4>1 DEF Read, Ends, Moves
        <5> QED
          BY <5>1 DEF Done
      <4>2. CASE Relabel(w)
        <5>1. pc'[w] = "append" /\ req' = req
          BY <2>0, <4>2 DEF Relabel, Moves
        <5>2. item' = Relabelled(i, req[w].label, FALSE)
          BY <4>2 DEF Relabel
        <5>3. item'[i] # NoItem => item'[i] = [label |-> req[w].label, auto |-> FALSE]
          BY <2>0, <4>0, <5>2 DEF Relabelled
        <5> QED
          BY <5>1, <5>3 DEF Done
      <4>3. CASE Append_(w)
        <5>1. pc[w] = "append" /\ pc'[w] = "member" /\ UNCHANGED <<req, item>>
          BY <2>0, <4>3 DEF Append_, Moves
        <5>2. /\ events' = events \cup {[n |-> eventsMade + 1, item |-> i,
                                        old |-> work[w].old, new |-> req[w].label]}
              /\ eventsMade' = eventsMade + 1
          BY <4>3 DEF Append_
        <5>3. \E e \in events' : e.item = i /\ e.new = req[w].label /\ e.n = eventsMade'
          <6> DEFINE e == [n |-> eventsMade + 1, item |-> i, old |-> work[w].old, new |-> req[w].label]
          <6>1. e \in events' /\ e.item = i /\ e.new = req[w].label /\ e.n = eventsMade'
            BY <5>2
          <6> HIDE DEF e
          <6> QED
            BY <6>1
        <5> QED
          BY <4>0, <5>1, <5>3 DEF Done
      <4>4. CASE Member(w)
        <5>1. /\ pc[w] = "member" /\ pc'[w] = IF i \in mem THEN "count" ELSE "outcome"
              /\ UNCHANGED <<req, item, events, eventsMade, mem, mode>>
          BY <2>0, <4>4 DEF Member, Moves, tables, counters
        <5> QED
          BY <4>0, <5>1 DEF Done
      <4>5. CASE Count(w)
        <5>1. /\ pc[w] = "count" /\ UNCHANGED <<item, events, eventsMade, mem, mode>>
          BY <4>5 DEF Count, tables, counters
        <5>2. CASE mode = NoMode
          <6>1. pc'[w] = "idle"
            BY <2>0, <4>5, <5>2 DEF Count, Ends
          <6> QED
            BY <6>1 DEF Done
        <5>3. CASE mode # NoMode
          <6>1. /\ work' = [work EXCEPT ![w] = [work[w] EXCEPT !.count = Purity(item, mem)]]
                /\ pc'[w] = "purity" /\ req' = req
            BY <2>0, <4>5, <5>3 DEF Count, Moves
          <6>2. work'[w].count = Purity(item, mem)
            BY <2>0, <6>1
          <6>3. work'[w].count = Purity(item', mem')
            BY <5>1, <6>2
          <6> QED
            BY <4>0, <5>1, <6>1, <6>3 DEF Done
        <5> QED
          BY <5>2, <5>3
      <4>6. CASE WritePurity(w)
        <5>1. /\ pc[w] = "purity" /\ pc'[w] = "outcome"
              /\ mode' = IF mode = NoMode THEN mode ELSE work[w].count
              /\ UNCHANGED <<req, item, events, eventsMade, mem>>
          BY <2>0, <4>6 DEF WritePurity, Moves, counters
        <5>2. i \in mem => mode' = work[w].count
          BY <5>1 DEF ModeInv
        <5> QED
          BY <4>0, <5>1, <5>2 DEF Done
      <4>7. CASE Outcome(w) \/ Fail(w) \/ Victim(w)
        <5>1. pc'[w] = "idle"
          BY <2>0, <4>7 DEF Outcome, Fail, Victim, Ends
        <5> QED
          BY <5>1 DEF Done
      <4>8. CASE LockLost(w)
        <5>1. UNCHANGED <<req, item, events, eventsMade, mem, mode, work, pc>>
          BY <4>8 DEF LockLost, tables
        <5> QED
          BY <4>0, <5>1 DEF Done
      <4> QED
        BY <2>2, <3>2, <4>1, <4>2, <4>3, <4>4, <4>5, <4>6, <4>7, <4>8 DEF Request, DefectAt, Lock, Load,
             Save, Mirror, Upsert, Purge, Erase, Decide, Suggest, AutoLabel, Join
    <3>3. CASE pc[w] \notin DefectAt
      <4>1. ~(Read(w) \/ Relabel(w) \/ Append_(w) \/ Member(w) \/ Count(w) \/ WritePurity(w) \/ Outcome(w))
        BY <3>3 DEF DefectAt, Read, Relabel, Append_, Member, Count, WritePurity, Outcome
      <4>2. pc'[w] \notin DefectAt
        BY <2>0, <2>2, <3>3, <4>1 DEF Request, DefectAt, Fail, Victim, Ends, Moves, Lock, LockLost, Load, Save,
             Mirror, Upsert, Commit, Purge, Erase, Decide, Suggest, AutoLabel, Join
      <4> QED
        BY <1>4, <4>2
    <3> QED
      BY <3>2, <3>3
  <2> QED
    BY <2>1, <2>2
<1>5. DoneInv'
  BY <1>3, <1>4 DEF DoneInv, Done
<1> QED
  BY <1>2, <1>5

(* Rows are written, resolved and deleted whole. *)
LEMMA SugStep ==
    ASSUME SugInv, NEW w \in Workers, Request(w)
    PROVE  SugInv'
<1>1. CASE Outcome(w)
  <2>1. sug' = {IF r.item = req[w].item /\ r.outcome = "pending"
                THEN [r EXCEPT !.outcome = IF r.label = req[w].label THEN "accepted" ELSE "corrected"]
                ELSE r : r \in sug}
    BY <1>1 DEF Outcome
  <2> QED
    BY <2>1 DEF SugInv
<1>2. CASE Suggest(w)
  BY <1>2 DEF Suggest, SugInv
<1>3. CASE ~(Outcome(w) \/ Suggest(w))
  <2>1. sug' \subseteq sug
    BY <1>3 DEF Request, Start, Fail, Victim, Ends, Moves, Lock, LockLost, Load, Save, Mirror, Upsert,
         Commit, Purge, Erase, Read, Relabel, Append_, Member, Count, WritePurity, Decide,
         AutoLabel, Join, tables
  <2> QED
    BY <2>1 DEF SugInv
<1> QED
  BY <1>1, <1>2, <1>3

(* A project is new, or has one indexed, labelled and matched item. *)
LEMMA InitFeedback == Init => FeedbackInv
<1> SUFFICES ASSUME Init PROVE FeedbackInv
  OBVIOUS
<1>1. KindInv
  BY DEF Init, KindInv, IsFcn, NoWork, IndexAt, AnalyzeAt, DefectAt
<1>2. AloneInv /\ DoneInv /\ SugInv
  BY DEF Init, AloneInv, DoneInv, SugInv
<1>3. PICK warm \in {{}} \cup {{i} : i \in Items} :
          /\ mem = warm /\ mode = IF warm = {} THEN NoMode ELSE <<1, 1>>
          /\ events = {[n |-> 1, item |-> i, old |-> "ti", new |-> "pb"] : i \in warm}
          /\ eventsMade = Cardinality(warm)
  BY DEF Init
<1>4. CASE warm = {}
  <2>1. LogInv
    BY <1>3, <1>4, FS_EmptySet DEF Init, LogInv
  <2>2. ModeInv
    BY <1>3, <1>4, FS_EmptySet DEF Init, ModeInv
  <2> QED
    BY <1>1, <1>2, <2>1, <2>2 DEF FeedbackInv
<1>5. CASE warm # {}
  <2>1. PICK i \in Items : warm = {i}
    BY <1>5
  <2>2. Cardinality(warm) = 1 /\ IsFiniteSet(warm)
    BY <2>1, FS_Singleton
  <2>3. events = {[n |-> 1, item |-> i, old |-> "ti", new |-> "pb"]}
    BY <1>3, <2>1
  <2>4. LogInv
    BY <1>3, <2>2, <2>3 DEF Init, LogInv
  <2>5. ModeInv
    BY <1>3, <1>5, <2>2 DEF Init, ModeInv, NoMode
  <2> QED
    BY <1>1, <1>2, <2>4, <2>5 DEF FeedbackInv
<1> QED
  BY <1>4, <1>5

(* The reaper takes no event of an item that is there. *)
LEMMA ReaperKeepsFeedback ==
    ASSUME StoreInv, FeedbackInv, Next, Mark \/ Sweep
    PROVE  FeedbackInv'
<1> USE DEF FeedbackInv
<1>1. UNCHANGED <<item, sug, mode, mem, req, pc, work, writes, eventsMade, alone>>
  BY DEF Mark, Sweep, Reaped, counters
<1>2. \A e \in events : item[e.item] # NoItem /\ e.item \in Items => e \in events'
  BY DEF Mark, Sweep, Expired, Present
<1>3. LogInv'
  BY LogStep
<1>4. KindInv' /\ AloneInv' /\ ModeInv' /\ SugInv'
  BY <1>1 DEF KindInv, AloneInv, ModeInv, SugInv
<1>5. ASSUME NEW w \in Workers, alone[w], pc[w] \in DefectAt, req[w].item \in Items, Done(w, pc[w])
      PROVE  Done(w, pc[w])'
  BY <1>1, <1>2, <1>5 DEF Done
<1>6. DoneInv'
  BY <1>1, <1>5 DEF DoneInv, StoreInv, RequestInv
<1> QED
  BY <1>1, <1>3, <1>4, <1>6

(* Every step keeps the invariant. *)
LEMMA StepFeedback == StoreInv /\ FeedbackInv /\ [Next]_vars => FeedbackInv'
<1> SUFFICES ASSUME StoreInv, FeedbackInv, [Next]_vars PROVE FeedbackInv'
  OBVIOUS
<1>1. ASSUME NEW w \in Workers, Request(w) PROVE FeedbackInv'
  <2>1. KindInv' /\ ModeInv'
    BY <1>1, KindStep, ModeStep DEF FeedbackInv
  <2>2. DoneInv' /\ AloneInv'
    BY <1>1, DoneStep
  <2>3. LogInv'
    BY <1>1, LogStep DEF FeedbackInv, Next
  <2>4. SugInv'
    BY <1>1, SugStep DEF FeedbackInv
  <2> QED
    BY <2>1, <2>2, <2>3, <2>4 DEF FeedbackInv
<1>2. CASE Mark \/ Sweep
  BY <1>2, ReaperKeepsFeedback DEF Next
<1>3. CASE UNCHANGED vars
  BY <1>3 DEF vars, tables, counters, FeedbackInv, KindInv, IsFcn, AloneInv, LogInv, ModeInv, SugInv, DoneInv, Done
<1> QED
  BY <1>1, <1>2, <1>3 DEF Next

(* The newest event of an item is the last one made, if that is its. *)
LEMMA NewestIsLast ==
    ASSUME LogInv, NEW e \in events, e.n = eventsMade
    PROVE  Newest(events, e.item) = e
<1>1. \A f \in events : f.item = e.item => f.n <= e.n
  BY DEF LogInv
<1>2. \A f \in events : f.item = e.item /\ (\A g \in events : g.item = e.item => g.n <= f.n) => f = e
  BY DEF LogInv
<1> QED
  BY <1>1, <1>2 DEF Newest

(* An update that nobody overlaps ends as the comment says. *)
LEMMA AloneConverges ==
    ASSUME StoreInv, FeedbackInv, [Next]_vars,
           NEW w \in Workers, NEW i \in Items, NEW l \in Labels,
           req[w] = [kind |-> "defect_update", item |-> i, label |-> l],
           pc'[w] = "idle", faults' = faults, alone[w], item[i] # NoItem, vars' # vars
    PROVE  Coherent(i, l)'
<1> USE DEF FeedbackInv
<1>1. pc[w] \in DefectAt
  <2>1. pc[w] # "idle"
    BY DEF KindInv, Idle
  <2> QED
    BY <2>1 DEF KindInv, StoreInv, RequestInv, DeleteAt, Deletions
<1>2. req[w].item = i /\ req[w].label = l
  OBVIOUS
<1>3. PICK v \in Workers : Request(v)
  BY <1>1 DEF Next, Mark, Sweep, Reaped, DefectAt
<1>4. v = w
  BY <1>1, <1>3, WorkersApart DEF DefectAt
<1>5. Done(w, pc[w])
  BY <1>1 DEF DoneInv
<1>6. ~Victim(w)
  <2>1. \A u \in Workers \ {w} : writes[u] = {}
    BY DEF AloneInv, KindInv
  <2> QED
    BY <2>1 DEF Victim, WaitsFor
<1>7. ~Fail(w) /\ ~LockLost(w)
  BY DEF Fail, LockLost, LogInv
<1>8. /\ IsFcn(pc, Workers)
      /\ pc[w] = "count" => mode # NoMode
  BY <1>2, <1>5 DEF StoreInv, ShapeInv, Done, ModeInv
<1>9. Outcome(w)
  <2>1. ~Read(w)
    BY <1>2, <1>8 DEF Read, Moves, IsFcn
  <2>2. ~Count(w)
    BY <1>8 DEF Count, Moves, IsFcn
  <2>3. ~(Relabel(w) \/ Append_(w) \/ Member(w) \/ WritePurity(w))
    BY <1>8 DEF Relabel, Append_, Member, WritePurity, Moves, IsFcn
  <2> QED
    BY <1>1, <1>3, <1>4, <1>6, <1>7, <2>1, <2>2, <2>3 DEF DefectAt, Request, Start, Lock, Load, Save, Mirror,
         Upsert, Purge, Erase, Decide, Suggest, AutoLabel, Join
<1>10. /\ pc[w] = "outcome" /\ UNCHANGED <<item, mode, mem, events, eventsMade>>
       /\ sug' = {IF r.item = i /\ r.outcome = "pending"
                  THEN [r EXCEPT !.outcome = IF r.label = l THEN "accepted" ELSE "corrected"]
                  ELSE r : r \in sug}
  BY <1>2, <1>9 DEF Outcome, counters
<1>11. item[i] = [label |-> l, auto |-> FALSE] /\ (i \in mem => mode = Purity(item, mem))
  BY <1>2, <1>5, <1>10 DEF Done
<1>12. PICK e \in events : e.item = i /\ e.new = l /\ e.n = eventsMade
  BY <1>2, <1>5, <1>10 DEF Done
<1>13. Newest(events, i).new = l
  BY <1>12, NewestIsLast
<1>14. ASSUME NEW r \in sug', r.item = i PROVE r.outcome # "pending"
  <2>1. PICK q \in sug : r = IF q.item = i /\ q.outcome = "pending"
                             THEN [q EXCEPT !.outcome = IF q.label = l THEN "accepted" ELSE "corrected"]
                             ELSE q
    BY <1>10, <1>14
  <2> QED
    BY <1>14, <2>1 DEF SugInv
<1> QED
  BY <1>10, <1>11, <1>12, <1>13, <1>14 DEF Coherent

(* For any workers, items, labels and verdicts: whatever was left half     *)
(* done before it, a defect_update that no other request overlaps leaves   *)
(* the label, the log, the purity and the suggestions agreeing             *)
(* (defect_update, handlers.py:476-481).                                   *)
THEOREM FeedbackReconverges == Spec => Reconverges
<1> DEFINE Converged == \A w \in Workers, i \in Items, l \in Labels :
         /\ req[w] = [kind |-> "defect_update", item |-> i, label |-> l]
         /\ pc'[w] = "idle" /\ faults' = faults /\ alone[w] /\ item[i] # NoItem
         => Coherent(i, l)'
<1>1. StoreInv /\ FeedbackInv /\ [Next]_vars => [Converged]_vars
  BY AloneConverges
<1>2. StoreInv /\ [Next]_vars => StoreInv'
  BY NextStore
<1> QED
  BY <1>1, <1>2, InitStore, InitFeedback, StepFeedback, PTL DEF Spec, Reconverges
=============================================================================
