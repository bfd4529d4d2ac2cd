-------------------------- MODULE KeyRotation_proofs --------------------------
(* Theorems about key rotation, for any number of credentials, keys, versions  *)
(* and overlapping rotations, and any batch size.                              *)
EXTENDS KeyRotation, FiniteSetTheorems, TLAPS

\* The versions are those of the environment, and once keys are numbered the
\* primary one is the newest of them.
KeysLoaded ==
  /\ keys = LoadKeys(env)
  /\ DOMAIN keys \subseteq 1..MaxVersion
  /\ \A v \in DOMAIN keys : keys[v] \in Keys /\ v <= current
  /\ current \in DOMAIN keys
  /\ DOMAIN env.versioned # {} => env.versioned = keys /\ env.primary = keys[current]

\* Nothing is ahead of the current version, and what has it and can be decrypted
\* at all is under the current key.
Labelled ==
  \A c \in DOMAIN row :
    /\ row[c].version <= current
    /\ row[c].version = current /\ row[c].key \in Range(keys) => row[c].key = keys[current]

\* What the status has shown stays so until a key is added.
StatusHolds ==
  /\ status \in {"users", "all"} => \A c \in DOMAIN row \cap UserCreds : ~NeedsRotation(row[c])
  /\ status = "all" => \A c \in DOMAIN row \cap OrgCreds : ~NeedsRotation(row[c])

\* A batch is as its rows were: a row has since been deleted, or changed, or
\* been rotated, but not put back on an older version.
BatchFollowed(m) ==
  rot[m].pc = "commit" =>
    /\ DOMAIN rot[m].batch \cap unused = {}
    /\ \A c \in DOMAIN rot[m].batch \cap DOMAIN row :
         /\ ~NeedsRotation(rot[m].batch[c]) => ~NeedsRotation(row[c])
         /\ row[c].secret # rot[m].batch[c].secret => c \in rot[m].changed

\* What a smooth rotation has passed is on the current version.
Progress(m) ==
  LET r == rot[m]
      o == order[r.tab] IN
  r.smooth =>
    /\ r.pc \in {"select", "commit"} /\ r.tab = 2
         => \A c \in DOMAIN row \cap UserCreds : ~NeedsRotation(row[c])
    /\ r.pc = "select"
         => \A i \in DOMAIN o : i <= r.offset => ~NeedsRotation(row[o[i]])
    /\ r.pc = "commit"
         => \A i \in DOMAIN o :
              i <= r.offset + BatchSize => o[i] \in DOMAIN r.batch \/ ~NeedsRotation(row[o[i]])

RotationInv ==
  /\ TypeOK /\ KeysLoaded /\ Labelled /\ StatusHolds
  /\ \A m \in Rotations : BatchFollowed(m) /\ Progress(m)
  /\ QuietRotationCompletes

\* A step that leaves the keys alone and touches rows only by encrypting them.
RowsImprove ==
  /\ UNCHANGED <<env, keys, current>>
  /\ \A c \in DOMAIN row' :
       \/ c \in DOMAIN row /\ row'[c] = row[c]
       \/ row'[c] \in Cipher /\ row'[c].version = current /\ row'[c].key = keys[current]

\* A step in which the rotation m notices at most what the others do.
Stays(m) ==
  /\ rot'[m].pc = rot[m].pc /\ rot'[m].tab = rot[m].tab
  /\ rot'[m].offset = rot[m].offset /\ rot'[m].batch = rot[m].batch
  /\ rot'[m].smooth => rot[m].smooth
------------------------------------------------------------------------------
(* Operators *)

\* Encrypting writes the current version, under its key, and can be undone.
LEMMA EncryptFacts ==
  ASSUME KeysLoaded, NEW s \in Secrets
  PROVE  /\ Encrypt(s) \in Cipher
         /\ Encrypt(s).version = current /\ Encrypt(s).key = keys[current]
         /\ Encrypt(s).secret = s
BY DEF Encrypt, Cipher, KeysLoaded

\* What the current key encrypted decrypts and needs no rotation.
LEMMA CurrentFacts ==
  ASSUME KeysLoaded, NEW x, x.version = current, x.key = keys[current]
  PROVE  Decrypts(x) /\ ~NeedsRotation(x)
<1>1. current \in Nat /\ current \in DOMAIN keys
  BY ConstantsAssumption DEF KeysLoaded
<1>2. x.key \in Range(keys)
  BY <1>1 DEF Range
<1>3. QED
  BY <1>1, <1>2 DEF Decrypts, NeedsRotation

\* The maximum of a set of numbers with an upper bound in it is that bound.
LEMMA MaxIs ==
  ASSUME NEW S \in SUBSET Nat, NEW n \in S, \A v \in S : v <= n
  PROVE  Max(S) = n
<1>1. \A x \in S : (\A y \in S : x >= y) => x = n
  OBVIOUS
<1>2. n \in S /\ \A y \in S : n >= y
  OBVIOUS
<1>3. QED BY <1>1, <1>2 DEF Max

\* An order of rows is a sequence of exactly these rows.
LEMMA OrderFacts ==
  ASSUME NEW S, IsFiniteSet(S), NEW o \in Orders(S)
  PROVE  o \in Seq(S) /\ Range(o) = S
<1>1. Cardinality(S) \in Nat
  BY FS_CardinalityType
<1>2. PICK n \in 0..Cardinality(S) : o \in [1..n -> S]
  BY DEF Orders
<1>3. n \in Nat
  BY <1>1, <1>2
<1>4. QED
  BY <1>2, <1>3 DEF Orders

\* Inserting moves what comes later by one.
LEMMA InsertFacts ==
  ASSUME NEW S, NEW o \in Seq(S), NEW c \in S, NEW p \in 1..Len(o) + 1
  PROVE  /\ InsertAt(o, p, c) \in Seq(S)
         /\ Len(InsertAt(o, p, c)) = Len(o) + 1
         /\ \A i \in 1..Len(o) + 1 :
              InsertAt(o, p, c)[i] = IF i < p THEN o[i] ELSE IF i = p THEN c ELSE o[i - 1]
<1> DEFINE a == SubSeq(o, 1, p - 1)
           b == SubSeq(o, p, Len(o))
<1>1. a \in Seq(S) /\ Len(a) = p - 1 /\ \A i \in 1..p - 1 : a[i] = o[i]
  OBVIOUS
<1>2. b \in Seq(S) /\ Len(b) = Len(o) + 1 - p /\ \A i \in 1..Len(o) + 1 - p : b[i] = o[p + i - 1]
  OBVIOUS
<1>3. <<c>> \in Seq(S) /\ Len(<<c>>) = 1 /\ <<c>>[1] = c
  OBVIOUS
<1>4. InsertAt(o, p, c) = (a \o <<c>>) \o b
  BY DEF InsertAt
<1> HIDE DEF a, b
<1>5. a \o <<c>> \in Seq(S) /\ Len(a \o <<c>>) = p
      /\ \A i \in 1..p : (a \o <<c>>)[i] = IF i < p THEN o[i] ELSE c
  BY <1>1, <1>3
<1> DEFINE d == a \o <<c>>
<1>6. d \in Seq(S) /\ Len(d) = p /\ \A i \in 1..p : d[i] = IF i < p THEN o[i] ELSE c
  BY <1>5
<1> HIDE DEF d
<1>7. d \o b \in Seq(S) /\ Len(d \o b) = Len(o) + 1
  BY <1>2, <1>6
<1>8. \A i \in 1..Len(o) + 1 :
        (d \o b)[i] = IF i < p THEN o[i] ELSE IF i = p THEN c ELSE o[i - 1]
  BY <1>2, <1>6, <1>7, SMTT(30)
<1>9. QED BY <1>4, <1>7, <1>8 DEF d
------------------------------------------------------------------------------
(* Steps that keep the keys *)

\* What a row had, it keeps: being on the current version and being readable.
LEMMA ImproveKeeps ==
  ASSUME KeysLoaded, Labelled, RowsImprove
  PROVE  /\ KeysLoaded' /\ Labelled'
         /\ \A c \in DOMAIN row' : c \notin DOMAIN row => ~NeedsRotation(row[c])'
         /\ \A c \in DOMAIN row \cap DOMAIN row' :
              /\ ~NeedsRotation(row[c]) => ~NeedsRotation(row[c])'
              /\ Decrypts(row[c]) => Decrypts(row[c])'
<1>1. env' = env /\ keys' = keys /\ current' = current
  BY DEF RowsImprove
<1>2. KeysLoaded'
  BY <1>1 DEF KeysLoaded
<1>3. current \in Nat
  BY ConstantsAssumption DEF KeysLoaded
<1>4. Labelled'
  BY <1>1, <1>3 DEF Labelled, RowsImprove
<1>5. ASSUME NEW c \in DOMAIN row', ~(c \in DOMAIN row /\ row'[c] = row[c])
      PROVE  ~NeedsRotation(row[c])' /\ Decrypts(row[c])'
  <2>1. row'[c].version = current /\ row'[c].key = keys[current]
    BY <1>5 DEF RowsImprove
  <2>2. Decrypts(row'[c]) /\ ~NeedsRotation(row'[c])
    BY <2>1, CurrentFacts
  <2>3. QED BY <1>1, <2>2 DEF Decrypts, NeedsRotation
<1>6. ASSUME NEW c \in DOMAIN row', c \in DOMAIN row, row'[c] = row[c]
      PROVE  /\ ~NeedsRotation(row[c]) => ~NeedsRotation(row[c])'
             /\ Decrypts(row[c]) => Decrypts(row[c])'
  BY <1>1, <1>6 DEF Decrypts, NeedsRotation
<1>7. QED BY <1>2, <1>4, <1>5, <1>6

\* A status that stays in force stays true.
LEMMA StatusStays ==
  ASSUME KeysLoaded, Labelled, RowsImprove, StatusHolds, status' = status
  PROVE  StatusHolds'
<1>1. \A c \in DOMAIN row' :
        (c \in DOMAIN row => ~NeedsRotation(row[c])) => ~NeedsRotation(row[c])'
  BY ImproveKeeps
<1>2. QED BY <1>1 DEF StatusHolds

\* So does what a finished rotation has achieved.
LEMMA DoneStays ==
  ASSUME KeysLoaded, Labelled, RowsImprove, QuietRotationCompletes,
         \A m \in Rotations : rot'[m].pc = "done" /\ rot'[m].smooth
                                => rot[m].pc = "done" /\ rot[m].smooth
  PROVE  QuietRotationCompletes'
<1>1. \A c \in DOMAIN row' :
        (c \in DOMAIN row => ~NeedsRotation(row[c])) => ~NeedsRotation(row[c])'
  BY ImproveKeeps
<1>2. QED BY <1>1 DEF QuietRotationCompletes

\* A batch follows its rows through the steps of others that it notices.
LEMMA BatchStays ==
  ASSUME KeysLoaded, Labelled, RowsImprove, NEW m \in Rotations, BatchFollowed(m), Stays(m),
         unused' \subseteq unused, rot[m].changed \subseteq rot'[m].changed,
         \A c \in DOMAIN row' : c \notin DOMAIN row => c \in unused,
         rot[m].pc = "commit" =>
           \A c \in DOMAIN row \cap DOMAIN row' :
             row'[c].secret # row[c].secret => c \in rot'[m].changed \/ c \notin DOMAIN rot[m].batch
  PROVE  BatchFollowed(m)'
<1> SUFFICES ASSUME rot'[m].pc = "commit"
             PROVE  /\ DOMAIN rot'[m].batch \cap unused' = {}
                    /\ \A c \in DOMAIN rot'[m].batch \cap DOMAIN row' :
                         /\ ~NeedsRotation(rot[m].batch[c])' => ~NeedsRotation(row[c])'
                         /\ row'[c].secret # rot'[m].batch[c].secret => c \in rot'[m].changed
  BY DEF BatchFollowed
<1>1. rot[m].pc = "commit" /\ rot'[m].batch = rot[m].batch
  BY DEF Stays
<1>2. DOMAIN rot'[m].batch \cap unused' = {}
  BY <1>1 DEF BatchFollowed
<1>3. ASSUME NEW c \in DOMAIN rot'[m].batch \cap DOMAIN row'
      PROVE  /\ ~NeedsRotation(rot[m].batch[c])' => ~NeedsRotation(row[c])'
             /\ row'[c].secret # rot'[m].batch[c].secret => c \in rot'[m].changed
  <2>1. c \in DOMAIN row /\ c \in DOMAIN rot[m].batch
    BY <1>1 DEF BatchFollowed
  <2>2. current' = current
    BY DEF RowsImprove
  <2>3. ~NeedsRotation(rot[m].batch[c])' => ~NeedsRotation(rot[m].batch[c])
    BY <1>1, <2>2 DEF NeedsRotation
  <2>4. ~NeedsRotation(rot[m].batch[c])' => ~NeedsRotation(row[c])'
    BY <1>1, <2>1, <2>3, ImproveKeeps DEF BatchFollowed
  <2>5. row'[c].secret # rot'[m].batch[c].secret => c \in rot'[m].changed
    BY <1>1, <2>1 DEF BatchFollowed
  <2>6. QED BY <2>4, <2>5
<1>4. QED BY <1>2, <1>3

\* A rotation keeps its progress through steps that leave the rows in place.
LEMMA ProgressStays ==
  ASSUME KeysLoaded, Labelled, RowsTyped, RowsImprove, NEW m \in Rotations,
         RotationTyped(rot[m]), Progress(m), Stays(m),
         DOMAIN row' = DOMAIN row, order' = order
  PROVE  Progress(m)'
<1>1. \A c \in DOMAIN row : ~NeedsRotation(row[c]) => ~NeedsRotation(row[c])'
  BY ImproveKeeps
<1>2. \A i \in DOMAIN order[rot[m].tab] : order[rot[m].tab][i] \in DOMAIN row
  BY DEF RowsTyped, RotationTyped, Range
<1>3. QED BY <1>1, <1>2 DEF Progress, Stays
------------------------------------------------------------------------------
(* One lemma per action: every part of the invariant that it touches *)

Kept ==
  /\ RowsImprove
  /\ RowsTyped' /\ (DOMAIN rot = Rotations)'
  /\ \A m \in Rotations : RotationTyped(rot[m])' /\ BatchFollowed(m)' /\ Progress(m)'
  /\ QuietRotationCompletes'

\* The parts of the invariant make the whole.
LEMMA KeptIsEnough ==
  ASSUME RotationInv, Kept, StatusHolds', status' \in {"none", "users", "all"}
  PROVE  RotationInv'
<1>1. env' = env
  BY DEF Kept, RowsImprove
<1>2. TypeOK'
  BY <1>1 DEF RotationInv, TypeOK, Kept
<1>3. KeysLoaded' /\ Labelled'
  BY ImproveKeeps DEF RotationInv, Kept
<1>4. QED BY <1>2, <1>3 DEF RotationInv, Kept

\* Noticing does not change where a rotation is.
LEMMA NoticedFacts ==
  ASSUME NEW cs \in SUBSET Creds, NEW moved \in BOOLEAN, RotationInv,
         NEW m \in Rotations,
         rot'[m] = Noticed(cs, moved)[m]
  PROVE  /\ Stays(m) /\ RotationTyped(rot[m])'
         /\ rot'[m].changed = IF rot[m].pc = "commit" THEN rot[m].changed \cup cs
                                                      ELSE rot[m].changed
         /\ moved /\ Running(m) => ~rot'[m].smooth
<1> DEFINE r == rot[m]
<1>1. rot'[m] = Rotation(r.pc, r.tab, r.offset, r.batch, r.smooth /\ ~(moved /\ Running(m)),
                         IF r.pc = "commit" THEN r.changed \cup cs ELSE r.changed)
  BY DEF Noticed
<1>2. RotationTyped(r)
  BY DEF RotationInv, TypeOK
<1>3. /\ rot'[m].pc = r.pc /\ rot'[m].tab = r.tab /\ rot'[m].offset = r.offset
      /\ rot'[m].batch = r.batch /\ rot'[m].smooth = (r.smooth /\ ~(moved /\ Running(m)))
      /\ rot'[m].changed = IF r.pc = "commit" THEN r.changed \cup cs ELSE r.changed
  BY <1>1 DEF Rotation
<1>4. rot'[m].changed \subseteq Creds
  BY <1>2, <1>3 DEF RotationTyped
<1>5. rot'[m].smooth \in BOOLEAN
  BY <1>3
<1>6. RotationTyped(rot[m])'
  BY <1>2, <1>3, <1>4, <1>5 DEF RotationTyped
<1>7. QED BY <1>3, <1>6 DEF Stays

\* A new row is on the current version, wherever it goes in the order.
LEMMA CreateKeeps ==
  ASSUME RotationInv, NEW c \in Creds, NEW s \in Secrets,
         NEW p \in 1..Len(order[Table(c)]) + 1, Create(c, s, p)
  PROVE  Kept
<1> DEFINE t == Table(c)
           o == order[t]
           q == InsertAt(o, p, c)
<1>1. t \in {1, 2} /\ order \in [{1, 2} -> Seq(Creds)] /\ o \in Seq(Creds)
  BY DEF Table, RotationInv, TypeOK, RowsTyped
<1>0. p \in 1..Len(o) + 1 /\ DOMAIN o = 1..Len(o) /\ Len(o) \in Nat
  BY <1>1
<1>2. /\ q \in Seq(Creds) /\ Len(q) = Len(o) + 1
      /\ \A i \in 1..Len(o) + 1 : q[i] = IF i < p THEN o[i] ELSE IF i = p THEN c ELSE o[i - 1]
  BY <1>1, InsertFacts
<1>3. /\ order' = [order EXCEPT ![t] = q] /\ rot' = rot /\ unused' = unused \ {c} /\ c \in unused
      /\ UNCHANGED <<env, keys, current>>
      /\ row' = [x \in DOMAIN row \cup {c} |-> IF x = c THEN Encrypt(s) ELSE row[x]]
  BY DEF Create
<1>4. order'[t] = q /\ \A u \in {1, 2} : u # t => order'[u] = order[u]
  BY <1>1, <1>3
<1>5. /\ DOMAIN row' = DOMAIN row \cup {c} /\ row'[c] = Encrypt(s) /\ c \notin DOMAIN row
      /\ \A x \in DOMAIN row : row'[x] = row[x]
  BY <1>3 DEF RotationInv, TypeOK, RowsTyped
<1>6. /\ Encrypt(s) \in Cipher /\ Encrypt(s).version = current /\ Encrypt(s).key = keys[current]
  BY EncryptFacts DEF RotationInv
<1>7. RowsImprove
  BY <1>3, <1>5, <1>6 DEF RowsImprove
<1>8. Range(q) = Range(o) \cup {c}
  <2> HIDE DEF q, o
  <2>0. DOMAIN o = 1..Len(o) /\ DOMAIN q = 1..Len(o) + 1 /\ Len(o) \in Nat
    BY <1>1, <1>2
  <2>1. \A i \in DOMAIN q : q[i] \in Range(o) \cup {c}
    <3> SUFFICES ASSUME NEW i \in DOMAIN q, i # p PROVE q[i] \in Range(o)
      BY <1>0, <1>2, <2>0
    <3>1. CASE i < p
      <4>1. i \in DOMAIN o /\ q[i] = o[i]
        BY <1>0, <1>2, <2>0, <3>1
      <4>2. QED BY <4>1 DEF Range
    <3>2. CASE i > p
      <4>1. i - 1 \in DOMAIN o /\ q[i] = o[i - 1]
        BY <1>0, <1>2, <2>0, <3>2
      <4>2. QED BY <4>1 DEF Range
    <3>3. QED BY <1>0, <2>0, <3>1, <3>2
  <2>2. c \in Range(q)
    <3>1. p \in DOMAIN q /\ q[p] = c
      BY <1>0, <1>2, <2>0
    <3>2. QED BY <3>1 DEF Range
  <2>3. \A i \in DOMAIN o : o[i] \in Range(q)
    <3> SUFFICES ASSUME NEW i \in DOMAIN o PROVE o[i] \in Range(q)
      OBVIOUS
    <3>1. CASE i < p
      <4>1. i \in DOMAIN q /\ q[i] = o[i]
        BY <1>0, <1>2, <2>0, <3>1
      <4>2. QED BY <4>1 DEF Range
    <3>2. CASE i >= p
      <4>1. i + 1 \in DOMAIN q /\ ~(i + 1 < p) /\ i + 1 # p /\ (i + 1) - 1 = i
        BY <1>0, <2>0, <3>2
      <4>2. q[i + 1] = o[i]
        BY <1>0, <1>2, <2>0, <4>1
      <4>3. QED BY <4>1, <4>2 DEF Range
    <3>3. QED BY <1>0, <2>0, <3>1, <3>2
  <2>4. QED BY <2>1, <2>2, <2>3 DEF Range
<1>9. RowsTyped'
  <2>1. order' \in [{1, 2} -> Seq(Creds)]
    BY <1>1, <1>2, <1>3
  <2>2. \A u \in {1, 2} : Range(order'[u]) = {x \in DOMAIN row' : Table(x) = u}
    <3>1. \A u \in {1, 2} : Range(order[u]) = {x \in DOMAIN row : Table(x) = u}
      BY DEF RotationInv, TypeOK, RowsTyped
    <3>2. QED BY <1>4, <1>5, <1>8, <3>1
  <2>3. unused' \subseteq Creds /\ DOMAIN row' \subseteq Creds \ unused'
    BY <1>3, <1>5 DEF RotationInv, TypeOK, RowsTyped
  <2>4. \A x \in DOMAIN row' : row'[x] \in Cipher
    BY <1>5, <1>6 DEF RotationInv, TypeOK, RowsTyped
  <2>5. QED BY <2>1, <2>2, <2>3, <2>4 DEF RowsTyped
<1>10. ASSUME NEW m \in Rotations PROVE RotationTyped(rot[m])' /\ BatchFollowed(m)' /\ Progress(m)'
  <2> DEFINE r == rot[m]
  <2>1. RotationTyped(r) /\ Progress(m) /\ BatchFollowed(m)
    BY DEF RotationInv, TypeOK
  <2>2. RotationTyped(rot[m])'
    BY <1>3, <2>1 DEF RotationTyped
  <2>3. BatchFollowed(m)'
    <3>1. Stays(m)
      BY <1>3 DEF Stays
    <3>2. QED BY <1>3, <1>5, <1>7, <2>1, <3>1, BatchStays DEF RotationInv
  <2>4. \A x \in DOMAIN row' : (x \in DOMAIN row => ~NeedsRotation(row[x])) => ~NeedsRotation(row[x])'
    BY <1>7, ImproveKeeps DEF RotationInv
  <2>5. ASSUME NEW i \in DOMAIN order'[r.tab]
        PROVE  \/ order'[r.tab][i] = c
               \/ \E j \in DOMAIN order[r.tab] : j <= i /\ order'[r.tab][i] = order[r.tab][j]
    <3>0. r.tab \in {1, 2} /\ i \in Nat
      BY <1>1, <1>2, <1>3, <2>1, <2>5 DEF RotationTyped
    <3>1. CASE r.tab # t
      BY <1>4, <3>0, <3>1, <2>5
    <3>2. CASE r.tab = t
      <4>0. order'[r.tab] = q /\ order[r.tab] = o /\ i \in 1..Len(o) + 1
        BY <1>2, <1>4, <2>5, <3>2
      <4>1. CASE i < p
        <5> HIDE DEF o, q, t
        <5>1. i \in DOMAIN o /\ q[i] = o[i]
          BY <1>0, <1>2, <4>0, <4>1
        <5>2. QED BY <3>0, <4>0, <5>1
      <4>2. CASE i > p
        <5> HIDE DEF o, q, t
        <5>1. i - 1 \in DOMAIN o /\ i - 1 <= i /\ q[i] = o[i - 1]
          BY <1>0, <1>2, <4>0, <4>2
        <5>2. QED BY <4>0, <5>1
      <4>3. CASE i = p
        BY <1>2, <4>0, <4>3
      <4>4. QED BY <3>0, <4>1, <4>2, <4>3
    <3>3. QED BY <3>1, <3>2
  <2>6. /\ \A i \in DOMAIN order[r.tab] : i \in Nat /\ order[r.tab][i] \in DOMAIN row
        /\ \A i \in DOMAIN order'[r.tab] : i \in Nat /\ order'[r.tab][i] \in DOMAIN row'
        /\ r.offset \in Nat /\ BatchSize \in Nat
    BY <1>9, <2>1, ConstantsAssumption DEF RotationInv, TypeOK, RowsTyped, RotationTyped, Range
  <2>7. ~NeedsRotation(row[c])'
    BY <1>5, <2>4
  <2>8. ASSUME r.smooth, r.pc \in {"select", "commit"}, r.tab = 2
        PROVE  \A x \in DOMAIN row' \cap UserCreds : ~NeedsRotation(row[x])'
    BY <2>1, <2>4, <2>8 DEF Progress
  <2>9. ASSUME r.smooth, r.pc = "select", NEW i \in DOMAIN order'[r.tab], i <= r.offset
        PROVE  ~NeedsRotation(row[order[r.tab][i]])'
    <3>1. CASE order'[r.tab][i] = c
      BY <1>3, <2>7, <3>1
    <3>2. CASE order'[r.tab][i] # c
      <4>1. PICK j \in DOMAIN order[r.tab] : j <= i /\ order'[r.tab][i] = order[r.tab][j]
        BY <2>5, <3>2
      <4>2. ~NeedsRotation(row[order[r.tab][j]])
        BY <2>1, <2>6, <2>9, <4>1 DEF Progress
      <4>3. QED BY <1>3, <2>4, <2>6, <4>1, <4>2
    <3>3. QED BY <3>1, <3>2
  <2>10. ASSUME r.smooth, r.pc = "commit", NEW i \in DOMAIN order'[r.tab], i <= r.offset + BatchSize
         PROVE  order'[r.tab][i] \in DOMAIN r.batch \/ ~NeedsRotation(row[order[r.tab][i]])'
    <3>1. CASE order'[r.tab][i] = c
      BY <1>3, <2>7, <3>1
    <3>2. CASE order'[r.tab][i] # c
      <4>1. PICK j \in DOMAIN order[r.tab] : j <= i /\ order'[r.tab][i] = order[r.tab][j]
        BY <2>5, <3>2
      <4>2. order[r.tab][j] \in DOMAIN r.batch \/ ~NeedsRotation(row[order[r.tab][j]])
        BY <2>1, <2>6, <2>10, <4>1 DEF Progress
      <4>3. QED BY <1>3, <2>4, <2>6, <4>1, <4>2
    <3>3. QED BY <3>1, <3>2
  <2>11. Progress(m)'
    BY <1>3, <2>8, <2>9, <2>10 DEF Progress
  <2>12. QED BY <2>2, <2>3, <2>11
<1>11. QuietRotationCompletes'
  BY <1>3, <1>7, DoneStays DEF RotationInv
<1>12. QED
  BY <1>3, <1>7, <1>9, <1>10, <1>11 DEF Kept, RotationInv, TypeOK

\* An update notes the row in every rotation that has read it.
LEMMA UpdateKeeps ==
  ASSUME RotationInv, NEW c \in Creds, NEW s \in Secrets, Update(c, s)
  PROVE  Kept
<1>1. /\ c \in DOMAIN row /\ row' = [row EXCEPT ![c] = Encrypt(s)]
      /\ rot' = Noticed({c}, FALSE) /\ order' = order /\ unused' = unused
      /\ UNCHANGED <<env, keys, current>>
  BY DEF Update
<1>2. /\ Encrypt(s) \in Cipher /\ Encrypt(s).version = current /\ Encrypt(s).key = keys[current]
  BY EncryptFacts DEF RotationInv
<1>3. /\ DOMAIN row' = DOMAIN row /\ row'[c] = Encrypt(s)
      /\ \A x \in DOMAIN row : x # c => row'[x] = row[x]
  BY <1>1
<1>4. RowsImprove
  BY <1>1, <1>2, <1>3 DEF RowsImprove
<1>5. RowsTyped'
  BY <1>1, <1>2, <1>3 DEF RotationInv, TypeOK, RowsTyped
<1>6. ASSUME NEW m \in Rotations
      PROVE  /\ RotationTyped(rot[m])' /\ BatchFollowed(m)' /\ Progress(m)'
             /\ Stays(m)
  <2>1. rot'[m] = Noticed({c}, FALSE)[m]
    BY <1>1
  <2>2. /\ Stays(m) /\ RotationTyped(rot[m])'
        /\ rot'[m].changed = IF rot[m].pc = "commit" THEN rot[m].changed \cup {c} ELSE rot[m].changed
    BY <2>1, NoticedFacts
  <2>3. BatchFollowed(m)'
    BY <1>1, <1>3, <1>4, <2>2, BatchStays DEF RotationInv
  <2>4. Progress(m)'
    BY <1>1, <1>3, <1>4, <2>2, ProgressStays DEF RotationInv, TypeOK
  <2>5. QED BY <2>2, <2>3, <2>4
<1>7. QuietRotationCompletes'
  BY <1>4, <1>6, DoneStays DEF RotationInv, Stays
<1>8. DOMAIN rot' = Rotations
  BY <1>1 DEF Noticed
<1>9. QED BY <1>4, <1>5, <1>6, <1>7, <1>8 DEF Kept

\* Rows that move or go end the claims of the rotations under way.
LEMMA MovesKeep ==
  ASSUME RotationInv, RowsTyped', rot' = Noticed({}, TRUE),
         UNCHANGED <<env, keys, current, unused>>,
         DOMAIN row' \subseteq DOMAIN row, \A c \in DOMAIN row' : row'[c] = row[c]
  PROVE  Kept
<1>1. RowsImprove
  BY DEF RowsImprove
<1>2. ASSUME NEW m \in Rotations
      PROVE  /\ RotationTyped(rot[m])' /\ BatchFollowed(m)' /\ Progress(m)'
             /\ Stays(m)
  <2>1. rot'[m] = Noticed({}, TRUE)[m]
    OBVIOUS
  <2>2. /\ Stays(m) /\ RotationTyped(rot[m])'
        /\ rot'[m].changed = IF rot[m].pc = "commit" THEN rot[m].changed \cup {} ELSE rot[m].changed
        /\ Running(m) => ~rot'[m].smooth
    BY <2>1, NoticedFacts
  <2>3. BatchFollowed(m)'
    BY <1>1, <2>2, BatchStays DEF RotationInv
  <2>4. Progress(m)'
    <3>1. CASE Running(m)
      BY <2>2, <3>1 DEF Progress
    <3>2. CASE ~Running(m)
      <4>1. rot'[m].pc \notin {"select", "commit"}
        BY <2>2, <3>2 DEF Running, Stays
      <4>2. QED BY <4>1 DEF Progress
    <3>3. QED BY <3>1, <3>2
  <2>5. QED BY <2>2, <2>3, <2>4
<1>3. QuietRotationCompletes'
  BY <1>1, <1>2, DoneStays DEF RotationInv, Stays
<1>4. DOMAIN rot' = Rotations
  BY DEF Noticed
<1>5. QED BY <1>1, <1>2, <1>3, <1>4 DEF Kept

\* The rows of a table are finitely many.
LEMMA TableFinite ==
  ASSUME RowsTyped, NEW t \in {1, 2}
  PROVE  IsFiniteSet(Range(order[t]))
<1>1. Range(order[t]) \subseteq Creds
  BY DEF RowsTyped
<1>2. IsFiniteSet(Creds)
  BY FS_Union, ConstantsAssumption DEF Creds
<1>3. QED BY <1>1, <1>2, FS_Subset

LEMMA DeleteKeeps ==
  ASSUME RotationInv, NEW c \in Creds, Delete(c)
  PROVE  Kept
<1> DEFINE t == Table(c)
           left == Range(order[t]) \ {c}
<1>1. /\ c \in DOMAIN row /\ row' = [x \in DOMAIN row \ {c} |-> row[x]]
      /\ rot' = Noticed({}, TRUE) /\ UNCHANGED <<env, keys, current, unused>>
  BY DEF Delete
<1>2. PICK o \in Orders(left) : order' = [order EXCEPT ![t] = o]
  BY DEF Delete
<1>3. t \in {1, 2} /\ RowsTyped
  BY DEF Table, RotationInv, TypeOK
<1>4. IsFiniteSet(left) /\ left \subseteq Creds
  BY <1>3, TableFinite, FS_Subset DEF RowsTyped
<1>5. o \in Seq(left) /\ Range(o) = left
  BY <1>4, OrderFacts
<1>6. o \in Seq(Creds)
  BY <1>4, <1>5
<1>7. RowsTyped'
  <2>1. order' \in [{1, 2} -> Seq(Creds)]
    BY <1>2, <1>3, <1>6 DEF RowsTyped
  <2>2. order'[t] = o /\ \A u \in {1, 2} : u # t => order'[u] = order[u]
    BY <1>2, <1>3 DEF RowsTyped
  <2>3. DOMAIN row' = DOMAIN row \ {c}
    BY <1>1
  <2>4. \A u \in {1, 2} : Range(order'[u]) = {x \in DOMAIN row' : Table(x) = u}
    BY <1>3, <1>5, <2>2, <2>3 DEF RowsTyped
  <2>5. QED BY <1>1, <1>3, <2>1, <2>3, <2>4 DEF RowsTyped
<1>8. QED BY <1>1, <1>7, MovesKeep

LEMMA ReorderKeeps ==
  ASSUME RotationInv, NEW t \in {1, 2}, Reorder(t)
  PROVE  Kept
<1>1. /\ rot' = Noticed({}, TRUE) /\ UNCHANGED <<env, keys, current, row, unused>>
  BY DEF Reorder
<1>2. PICK o \in Orders(Range(order[t])) : order' = [order EXCEPT ![t] = o]
  BY DEF Reorder
<1>3. RowsTyped
  BY DEF RotationInv, TypeOK
<1>4. o \in Seq(Range(order[t])) /\ Range(o) = Range(order[t])
  BY <1>3, TableFinite, OrderFacts
<1>5. o \in Seq(Creds)
  BY <1>3, <1>4 DEF RowsTyped
<1>6. RowsTyped'
  <2>1. order' \in [{1, 2} -> Seq(Creds)]
    BY <1>2, <1>3, <1>5 DEF RowsTyped
  <2>2. \A u \in {1, 2} : Range(order'[u]) = Range(order[u])
    BY <1>2, <1>3, <1>4 DEF RowsTyped
  <2>3. QED BY <1>1, <1>3, <2>1, <2>2 DEF RowsTyped
<1>7. QED BY <1>1, <1>6, MovesKeep
------------------------------------------------------------------------------
(* The steps of a rotation *)

\* The other rotations are where they were, and so are the rows.
LEMMA RotationAlone ==
  ASSUME RotationInv, NEW m \in Rotations, NEW r, rot' = [rot EXCEPT ![m] = r],
         UNCHANGED <<env, keys, current, row, unused, order>>,
         RotationTyped(r), BatchFollowed(m)', Progress(m)',
         r.pc = "done" /\ r.smooth => \A c \in DOMAIN row : ~NeedsRotation(row[c])
  PROVE  Kept
<1>1. RowsImprove
  BY DEF RowsImprove
<1>2. DOMAIN rot = Rotations /\ RowsTyped /\ \A n \in Rotations : RotationTyped(rot[n])
  BY DEF RotationInv, TypeOK
<1>3. DOMAIN rot' = Rotations /\ rot'[m] = r /\ \A n \in Rotations : n # m => rot'[n] = rot[n]
  BY <1>2
<1>4. RowsTyped'
  BY <1>2 DEF RowsTyped
<1>5. ASSUME NEW n \in Rotations
      PROVE  RotationTyped(rot[n])' /\ BatchFollowed(n)' /\ Progress(n)'
  <2>1. CASE n = m
    <3>1. RotationTyped(rot[n])'
      BY <1>3, <2>1 DEF RotationTyped
    <3>2. QED BY <2>1, <3>1
  <2>2. CASE n # m
    <3>1. RotationTyped(rot[n])'
      BY <1>2, <1>3, <2>2 DEF RotationTyped
    <3>2. Stays(n) /\ rot'[n].changed = rot[n].changed
      BY <1>3, <2>2 DEF Stays
    <3>3. BatchFollowed(n)'
      BY <1>1, <3>2, BatchStays DEF RotationInv
    <3>4. Progress(n)'
      BY <1>1, <1>2, <3>2, ProgressStays DEF RotationInv
    <3>5. QED BY <3>1, <3>3, <3>4
  <2>3. QED BY <2>1, <2>2
<1>6. QuietRotationCompletes'
  <2>1. \A c \in DOMAIN row : ~NeedsRotation(row[c]) => ~NeedsRotation(row[c])'
    BY <1>1, ImproveKeeps DEF RotationInv
  <2>2. SUFFICES ASSUME NEW n \in Rotations, rot'[n].pc = "done" /\ rot'[n].smooth
                 PROVE  \A c \in DOMAIN row' : ~NeedsRotation(row[c])'
    BY DEF QuietRotationCompletes
  <2>3. \A c \in DOMAIN row : ~NeedsRotation(row[c])
    BY <1>3, <2>2 DEF RotationInv, QuietRotationCompletes
  <2>4. QED BY <2>1, <2>3
<1>7. QED BY <1>1, <1>3, <1>4, <1>5, <1>6 DEF Kept

\* A rotation that has not begun, or is no more, claims nothing.
LEMMA IdleFacts ==
  /\ RotationTyped(IdleRotation)
  /\ RotationTyped(Rotation("select", 1, 0, NoBatch, TRUE, {}))
BY DEF RotationTyped, IdleRotation, Rotation, NoBatch

LEMMA RaisesKeeps ==
  ASSUME RotationInv, NEW m \in Rotations, RotationRaises(m)
  PROVE  Kept
<1>1. rot'[m].pc = "idle" /\ rot' = [rot EXCEPT ![m] = IdleRotation]
  BY DEF RotationRaises, IdleRotation, Rotation, RotationInv, TypeOK
<1>2. BatchFollowed(m)' /\ Progress(m)'
  BY <1>1 DEF BatchFollowed, Progress
<1>3. IdleRotation.pc # "done"
  BY DEF IdleRotation, Rotation
<1>4. QED BY <1>1, <1>2, <1>3, IdleFacts, RotationAlone DEF RotationRaises

LEMMA StartKeeps ==
  ASSUME RotationInv, NEW m \in Rotations, Start(m)
  PROVE  Kept
<1> DEFINE r == Rotation("select", 1, 0, NoBatch, TRUE, {})
<1>1. rot' = [rot EXCEPT ![m] = r] /\ rot'[m] = r /\ order' = order
  BY DEF Start, RotationInv, TypeOK
<1>2. r.pc = "select" /\ r.tab = 1 /\ r.offset = 0
  BY DEF Rotation
<1>3. \A i \in DOMAIN order[1] : ~(i <= 0)
  BY DEF RotationInv, TypeOK, RowsTyped
<1> HIDE DEF r
<1>4. BatchFollowed(m)' /\ Progress(m)'
  BY <1>1, <1>2, <1>3 DEF BatchFollowed, Progress
<1>5. QED BY <1>1, <1>2, <1>4, IdleFacts, RotationAlone DEF Start, r

LEMMA FetchKeeps ==
  ASSUME RotationInv, NEW m \in Rotations, FetchBatch(m)
  PROVE  Kept
<1> DEFINE r == rot[m]
           o == order[r.tab]
           ids == Window(o, r.offset)
           b == [c \in ids |-> row[c]]
           n == Rotation("commit", r.tab, r.offset, b, r.smooth, {})
<1>1. /\ r.pc = "select" /\ rot' = [rot EXCEPT ![m] = n]
      /\ UNCHANGED <<env, keys, current, row, unused, order>>
  BY DEF FetchBatch
<1>2. rot'[m] = n
  BY <1>1 DEF RotationInv, TypeOK
<1>3. /\ n.pc = "commit" /\ n.tab = r.tab /\ n.offset = r.offset /\ n.batch = b
      /\ n.smooth = r.smooth /\ n.changed = {}
  BY DEF Rotation
<1>4. RotationTyped(r) /\ RowsTyped /\ Progress(m)
  BY DEF RotationInv, TypeOK
<1>5. \A c \in ids : c \in DOMAIN row /\ Table(c) = r.tab /\ row[c] \in Cipher /\ c \notin unused
  <2>1. ids \subseteq Range(o)
    BY DEF Window, Range
  <2>2. QED BY <1>4, <2>1 DEF RowsTyped, RotationTyped
<1>6. DOMAIN b = ids /\ \A c \in ids : b[c] = row[c]
  OBVIOUS
<1> HIDE DEF n, b
<1>7. RotationTyped(n)
  BY <1>3, <1>4, <1>5, <1>6 DEF RotationTyped
<1>8. BatchFollowed(m)'
  BY <1>1, <1>2, <1>3, <1>5, <1>6 DEF BatchFollowed, NeedsRotation
<1>9. Progress(m)'
  <2>1. ASSUME NEW i \in DOMAIN o, i <= r.offset + BatchSize, r.smooth
        PROVE  o[i] \in ids \/ ~NeedsRotation(row[o[i]])
    <3>1. i \in Nat /\ r.offset \in Nat
      BY <1>4 DEF RowsTyped, RotationTyped
    <3>2. CASE i <= r.offset
      BY <1>1, <1>4, <2>1, <3>2 DEF Progress
    <3>3. CASE r.offset < i
      BY <2>1, <3>3 DEF Window
    <3>4. QED BY <3>1, <3>2, <3>3
  <2>2. r.smooth /\ r.tab = 2 => \A c \in DOMAIN row \cap UserCreds : ~NeedsRotation(row[c])
    BY <1>1, <1>4 DEF Progress
  <2>3. QED BY <1>1, <1>2, <1>3, <1>6, <2>1, <2>2 DEF Progress, NeedsRotation
<1>10. QED BY <1>1, <1>3, <1>7, <1>8, <1>9, RotationAlone

\* An empty window means that the offset has passed every row of the table.
LEMMA WindowEmpty ==
  ASSUME NEW S, NEW o \in Seq(S), NEW k \in Nat, Window(o, k) = {}
  PROVE  \A i \in DOMAIN o : i <= k
<1> SUFFICES ASSUME NEW i \in DOMAIN o, k < i PROVE FALSE
  OBVIOUS
<1>1. BatchSize \in Nat /\ BatchSize > 0
  BY ConstantsAssumption
<1>2. k + 1 \in DOMAIN o /\ k < k + 1 /\ k + 1 <= k + BatchSize
  BY <1>1
<1>3. o[k + 1] \in Window(o, k)
  BY <1>2 DEF Window
<1>4. QED BY <1>3

LEMMA TableDoneKeeps ==
  ASSUME RotationInv, NEW m \in Rotations, TableDone(m)
  PROVE  Kept
<1> DEFINE r == rot[m]
           o == order[r.tab]
           n == IF r.tab = 1 THEN Rotation("select", 2, 0, NoBatch, r.smooth, {})
                             ELSE Rotation("done", 2, 0, NoBatch, r.smooth, {})
<1>1. /\ r.pc = "select" /\ Window(o, r.offset) = {} /\ rot' = [rot EXCEPT ![m] = n]
      /\ UNCHANGED <<env, keys, current, row, unused, order>>
  BY DEF TableDone
<1>2. rot'[m] = n
  BY <1>1 DEF RotationInv, TypeOK
<1>3. RotationTyped(r) /\ RowsTyped /\ Progress(m)
  BY DEF RotationInv, TypeOK
<1>4. /\ n.pc = IF r.tab = 1 THEN "select" ELSE "done"
      /\ n.tab = 2 /\ n.offset = 0 /\ n.batch = NoBatch
      /\ n.smooth = r.smooth /\ n.changed = {}
  BY DEF Rotation
<1>5. o \in Seq(Creds) /\ r.offset \in Nat /\ r.tab \in {1, 2}
  BY <1>3 DEF RowsTyped, RotationTyped
<1>6. \A i \in DOMAIN o : i <= r.offset
  BY <1>1, <1>5, WindowEmpty
<1>7. r.smooth => \A c \in DOMAIN row : Table(c) = r.tab => ~NeedsRotation(row[c])
  <2>1. \A c \in DOMAIN row : Table(c) = r.tab => \E i \in DOMAIN o : c = o[i]
    BY <1>3, <1>5 DEF RowsTyped, Range
  <2>2. QED BY <1>1, <1>3, <1>6, <2>1 DEF Progress
<1>8. r.smooth => \A c \in DOMAIN row \cap UserCreds : ~NeedsRotation(row[c])
  <2>1. CASE r.tab = 1
    BY <1>7, <2>1 DEF Table
  <2>2. CASE r.tab = 2
    BY <1>1, <1>3, <2>2 DEF Progress
  <2>3. QED BY <1>5, <2>1, <2>2
<1>9. n.pc = "done" /\ n.smooth => \A c \in DOMAIN row : ~NeedsRotation(row[c])
  BY <1>4, <1>5, <1>7, <1>8 DEF Table, RowsTyped
<1>10. RotationTyped(n)
  <2>1. DOMAIN n.batch = {}
    BY <1>4 DEF NoBatch
  <2> HIDE DEF n
  <2>2. QED BY <1>3, <1>4, <2>1 DEF RotationTyped
<1> HIDE DEF n
<1>11. BatchFollowed(m)'
  BY <1>2, <1>4 DEF BatchFollowed
<1>12. Progress(m)'
  <2>1. \A i \in DOMAIN order[2] : ~(i <= 0)
    BY <1>3 DEF RowsTyped
  <2>2. QED BY <1>1, <1>2, <1>4, <1>8, <2>1 DEF Progress, NeedsRotation
<1>13. QED BY <1>1, <1>9, <1>10, <1>11, <1>12, RotationAlone

\* What a commit does to the rows: it encrypts what the batch held.
LEMMA CommitRows ==
  ASSUME RotationInv, NEW m \in Rotations, CommitBatch(m)
  PROVE  LET b == rot[m].batch
             old == {c \in DOMAIN b : NeedsRotation(b[c])}
             migrated == {c \in old : Decrypts(b[c])} IN
         /\ DOMAIN row' = DOMAIN row /\ migrated \subseteq DOMAIN row
         /\ \A c \in DOMAIN row : c \notin migrated => row'[c] = row[c]
         /\ \A c \in migrated :
              /\ row'[c] \in Cipher /\ row'[c].version = current /\ row'[c].key = keys[current]
              /\ row'[c].secret = b[c].secret
         /\ RowsImprove
<1> DEFINE b == rot[m].batch
           old == {c \in DOMAIN b : NeedsRotation(b[c])}
           migrated == {c \in old : Decrypts(b[c])}
<1>1. /\ migrated \subseteq DOMAIN row /\ UNCHANGED <<env, keys, current>>
      /\ row' = [c \in DOMAIN row |-> IF c \in migrated THEN ReEncrypt(b[c]) ELSE row[c]]
  BY DEF CommitBatch
<1>2. /\ DOMAIN row' = DOMAIN row
      /\ \A c \in DOMAIN row : row'[c] = IF c \in migrated THEN ReEncrypt(b[c]) ELSE row[c]
  BY <1>1
<1>3. ASSUME NEW c \in migrated
      PROVE  /\ row'[c] \in Cipher /\ row'[c].version = current /\ row'[c].key = keys[current]
             /\ row'[c].secret = b[c].secret
  <2>1. b[c].secret \in Secrets
    BY DEF RotationInv, TypeOK, RotationTyped, Cipher
  <2>2. row'[c] = Encrypt(b[c].secret)
    BY <1>1, <1>2, <1>3 DEF ReEncrypt
  <2>3. QED BY <2>1, <2>2, EncryptFacts DEF RotationInv
<1>4. \A c \in DOMAIN row : c \notin migrated => row'[c] = row[c]
  BY <1>2
<1> HIDE DEF migrated
<1>5. RowsImprove
  BY <1>1, <1>2, <1>3, <1>4 DEF RowsImprove
<1>6. QED BY <1>1, <1>2, <1>3, <1>4, <1>5 DEF migrated

LEMMA CommitKeeps ==
  ASSUME RotationInv, NEW m \in Rotations, CommitBatch(m)
  PROVE  Kept
<1> DEFINE r == rot[m]
           b == r.batch
           o == order[r.tab]
           old == {c \in DOMAIN b : NeedsRotation(b[c])}
           migrated == {c \in old : Decrypts(b[c])}
           changed == {c \in migrated : c \in DOMAIN row /\ row[c].secret # b[c].secret}
           n == Rotation("select", r.tab, r.offset + BatchSize, NoBatch,
                         r.smooth /\ migrated = old, {})
<1>1. /\ r.pc = "commit" /\ rot' = [Noticed(changed, FALSE) EXCEPT ![m] = n]
      /\ UNCHANGED <<env, keys, current, unused, order>>
  BY DEF CommitBatch
<1>2. /\ DOMAIN row' = DOMAIN row /\ migrated \subseteq DOMAIN row
      /\ \A c \in DOMAIN row : c \notin migrated => row'[c] = row[c]
      /\ \A c \in migrated :
           /\ row'[c] \in Cipher /\ row'[c].version = current /\ row'[c].key = keys[current]
           /\ row'[c].secret = b[c].secret
      /\ RowsImprove
  BY CommitRows
<1>3. /\ n.pc = "select" /\ n.tab = r.tab /\ n.offset = r.offset + BatchSize
      /\ n.batch = NoBatch /\ n.smooth = (r.smooth /\ migrated = old) /\ n.changed = {}
  BY DEF Rotation
<1>4. /\ DOMAIN rot' = Rotations /\ rot'[m] = n
      /\ \A x \in Rotations : x # m => rot'[x] = Noticed(changed, FALSE)[x]
  BY <1>1 DEF Noticed
<1>5. RotationTyped(r) /\ RowsTyped /\ Progress(m) /\ BatchFollowed(m)
  BY DEF RotationInv, TypeOK
<1>6. RowsTyped'
  BY <1>1, <1>2, <1>5 DEF RowsTyped
<1>7. RotationTyped(n)
  <2>1. DOMAIN n.batch = {}
    BY <1>3 DEF NoBatch
  <2>2. r.offset + BatchSize \in Nat
    BY <1>5, ConstantsAssumption DEF RotationTyped
  <2>3. n.smooth \in BOOLEAN
    BY <1>3
  <2> HIDE DEF n
  <2>4. QED BY <1>3, <1>5, <2>1, <2>2, <2>3 DEF RotationTyped
<1>8. \A c \in DOMAIN row : ~NeedsRotation(row[c]) => ~NeedsRotation(row[c])'
  BY <1>2, ImproveKeeps DEF RotationInv
<1>9. \A c \in migrated : ~NeedsRotation(row[c])'
  <2>1. current' = current /\ current \in Nat
    BY <1>1, ConstantsAssumption DEF RotationInv, KeysLoaded
  <2>2. QED BY <1>2, <2>1 DEF NeedsRotation
<1>10. Progress(m)'
  <2>1. ASSUME n.smooth, NEW i \in DOMAIN o, i <= r.offset + BatchSize, NEW c, c = o[i]
        PROVE  ~NeedsRotation(row[c])'
    <3>1. r.smooth /\ migrated = old
      <4> HIDE DEF n, migrated, old
      <4>1. QED BY <1>3, <2>1
    <3>2. c \in DOMAIN row
      BY <1>5, <2>1 DEF RowsTyped, RotationTyped, Range
    <3>3. CASE c \in DOMAIN b /\ NeedsRotation(b[c])
      BY <1>9, <3>1, <3>3
    <3>4. CASE c \in DOMAIN b /\ ~NeedsRotation(b[c])
      BY <1>1, <1>5, <1>8, <3>2, <3>4 DEF BatchFollowed
    <3>5. CASE c \notin DOMAIN b
      BY <1>1, <1>5, <1>8, <2>1, <3>1, <3>2, <3>5 DEF Progress
    <3>6. QED BY <3>3, <3>4, <3>5
  <2>2. n.smooth /\ r.tab = 2 => \A c \in DOMAIN row \cap UserCreds : ~NeedsRotation(row[c])'
    BY <1>1, <1>3, <1>5, <1>8 DEF Progress
  <2> HIDE DEF n, migrated, old
  <2>3. order' = order /\ rot'[m] = n /\ n.tab = r.tab /\ n.pc = "select"
        /\ n.offset = r.offset + BatchSize /\ DOMAIN row' = DOMAIN row
    BY <1>1, <1>2, <1>3, <1>4
  <2>4. n.smooth => \A i \in DOMAIN o : i <= n.offset => ~NeedsRotation(row[order[rot[m].tab][i]])'
    BY <2>1, <2>3 DEF NeedsRotation
  <2>5. QED BY <2>2, <2>3, <2>4 DEF Progress
<1>11. BatchFollowed(m)'
  BY <1>3, <1>4 DEF BatchFollowed
<1>12. ASSUME NEW x \in Rotations, x # m
       PROVE  /\ RotationTyped(rot[x])' /\ BatchFollowed(x)' /\ Progress(x)'
              /\ Stays(x)
  <2>1. rot'[x] = Noticed(changed, FALSE)[x]
    BY <1>4, <1>12
  <2>2. changed \subseteq Creds
    BY <1>5 DEF RowsTyped
  <2>3. \A c \in DOMAIN row : row'[c].secret # row[c].secret => c \in changed
    BY <1>2
  <2> HIDE DEF changed
  <2>4. /\ Stays(x) /\ RotationTyped(rot[x])'
        /\ rot'[x].changed = IF rot[x].pc = "commit" THEN rot[x].changed \cup changed ELSE rot[x].changed
    BY <2>1, <2>2, NoticedFacts
  <2>5. BatchFollowed(x)'
    <3>1. rot[x].changed \subseteq rot'[x].changed
      BY <2>4
    <3>2. rot[x].pc = "commit" =>
            \A c \in DOMAIN row \cap DOMAIN row' :
              row'[c].secret # row[c].secret => c \in rot'[x].changed
      BY <2>3, <2>4
    <3>3. unused' \subseteq unused /\ DOMAIN row' = DOMAIN row
      BY <1>1, <1>2
    <3>4. QED BY <1>2, <2>4, <3>1, <3>2, <3>3, BatchStays DEF RotationInv
  <2>6. Progress(x)'
    BY <1>1, <1>2, <1>5, <2>4, ProgressStays DEF RotationInv, TypeOK
  <2>7. QED BY <2>4, <2>5, <2>6
<1>13. RotationTyped(rot[m])'
  BY <1>4, <1>7 DEF RotationTyped
<1>14. QuietRotationCompletes'
  <2>1. \A x \in Rotations : rot'[x].pc = "done" /\ rot'[x].smooth
                               => rot[x].pc = "done" /\ rot[x].smooth
    BY <1>3, <1>4, <1>12 DEF Stays
  <2>2. QED BY <1>2, <2>1, DoneStays DEF RotationInv
<1> HIDE DEF n
<1>15. QED BY <1>2, <1>4, <1>6, <1>10, <1>11, <1>12, <1>13, <1>14 DEF Kept
------------------------------------------------------------------------------
(* Steps that write no row *)

\* Reading the status changes only the status.
LEMMA CountKeeps ==
  ASSUME RotationInv, CountUsers \/ CountOrgs
  PROVE  RotationInv' /\ RowsImprove /\ row' = row
<1>1. UNCHANGED <<env, keys, current, row, unused, order, rot>>
  BY DEF CountUsers, CountOrgs
<1>2. RowsImprove
  BY <1>1 DEF RowsImprove
<1>3. RowsTyped' /\ (DOMAIN rot = Rotations)'
  BY <1>1 DEF RotationInv, TypeOK, RowsTyped
<1>4. ASSUME NEW m \in Rotations
      PROVE  RotationTyped(rot[m])' /\ BatchFollowed(m)' /\ Progress(m)'
  <2>1. RotationTyped(rot[m])'
    BY <1>1 DEF RotationInv, TypeOK, RotationTyped
  <2>2. BatchFollowed(m)'
    BY <1>1 DEF RotationInv, BatchFollowed, NeedsRotation
  <2>3. Progress(m)'
    BY <1>1 DEF RotationInv, Progress, NeedsRotation
  <2>4. QED BY <2>1, <2>2, <2>3
<1>5. QuietRotationCompletes'
  BY <1>1 DEF RotationInv, QuietRotationCompletes, NeedsRotation
<1>6. Kept
  BY <1>2, <1>3, <1>4, <1>5 DEF Kept
<1>7. StatusHolds' /\ status' \in {"none", "users", "all"}
  <2>1. CASE CountUsers
    BY <1>1, <2>1 DEF CountUsers, StatusHolds, NeedsRotation
  <2>2. CASE CountOrgs
    <3>1. \A c \in DOMAIN row \cap UserCreds : ~NeedsRotation(row[c])
      BY <2>2 DEF CountOrgs, RotationInv, StatusHolds
    <3>2. QED BY <1>1, <2>2, <3>1 DEF CountOrgs, StatusHolds, NeedsRotation
  <2>3. QED BY <2>1, <2>2
<1>8. QED BY <1>1, <1>2, <1>6, <1>7, KeptIsEnough

\* Numbered keys that hold the primary one are loaded as they are, and the newest
\* number is current.
LEMMA NumberedKeysLoad ==
  ASSUME NEW e, NEW n \in DOMAIN e.versioned, DOMAIN e.versioned \subseteq Nat,
         \A v \in DOMAIN e.versioned : v <= n, e.primary = e.versioned[n], RestartWith(e)
  PROVE  env' = e /\ keys' = e.versioned /\ current' = n
<1>1. e.primary \in Range(e.versioned)
  BY DEF Range
<1>2. env' = e /\ keys' = e.versioned /\ current' = Max(DOMAIN keys')
  BY <1>1 DEF RestartWith, LoadKeys
<1>3. QED BY <1>2, MaxIs

\* With the keys loaded and the labels right, a restart leaves nothing else to show
\* but that what the operator knows holds: no rotation runs.
LEMMA RestartIsEnough ==
  ASSUME RotationInv, NEW e, RestartWith(e), KeysLoaded', Labelled',
         e.primary \in Keys, DOMAIN e.versioned \subseteq 1..MaxVersion,
         \A v \in DOMAIN e.versioned : e.versioned[v] \in Keys,
         status' \in {"none", "users", "all"}, DOMAIN rot' = Rotations,
         \A m \in Rotations : rot'[m] = IdleRotation \/ (rot'[m] = rot[m] /\ rot[m].pc = "done"),
         StatusHolds', QuietRotationCompletes'
  PROVE  RotationInv'
<1>1. env' = e /\ UNCHANGED <<row, unused, order>>
  BY DEF RestartWith
<1>2. IdleRotation.pc = "idle" /\ RotationTyped(IdleRotation)
  BY IdleFacts DEF IdleRotation, Rotation
<1>3. RowsTyped'
  BY <1>1 DEF RotationInv, TypeOK, RowsTyped
<1>4. ASSUME NEW m \in Rotations
      PROVE  RotationTyped(rot[m])' /\ BatchFollowed(m)' /\ Progress(m)'
  <2>1. rot'[m].pc \in {"idle", "done"}
    BY <1>2
  <2>2. RotationTyped(rot[m])
    BY DEF RotationInv, TypeOK
  <2>3. RotationTyped(rot[m])'
    BY <1>2, <2>2 DEF RotationTyped
  <2>4. QED BY <2>1, <2>3 DEF BatchFollowed, Progress
<1>5. TypeOK'
  BY <1>1, <1>3, <1>4 DEF TypeOK
<1>6. QED BY <1>4, <1>5 DEF RotationInv

\* Reports and a status are about rows and the current version: they hold on.
LEMMA InterruptedKeeps ==
  ASSUME RotationInv, NEW e, RestartWith(e), Interrupted, current' = current
  PROVE  /\ status' \in {"none", "users", "all"} /\ DOMAIN rot' = Rotations
         /\ \A m \in Rotations :
              rot'[m] = IdleRotation \/ (rot'[m] = rot[m] /\ rot[m].pc = "done")
         /\ StatusHolds' /\ QuietRotationCompletes'
<1>1. status' = status /\ row' = row
      /\ rot' = [m \in Rotations |-> IF rot[m].pc = "done" THEN rot[m] ELSE IdleRotation]
  BY DEF Interrupted, RestartWith
<1>2. StatusHolds /\ QuietRotationCompletes /\ status \in {"none", "users", "all"}
  BY DEF RotationInv, TypeOK
<1>3. \A c \in DOMAIN row : ~NeedsRotation(row[c]) => ~NeedsRotation(row[c])'
  BY <1>1 DEF NeedsRotation
<1>4. StatusHolds'
  BY <1>1, <1>2, <1>3 DEF StatusHolds
<1>5. IdleRotation.pc = "idle"
  BY DEF IdleRotation, Rotation
<1>6. QuietRotationCompletes'
  BY <1>1, <1>2, <1>3, <1>5 DEF QuietRotationCompletes
<1>7. QED BY <1>1, <1>2, <1>4, <1>6

\* The same environment gives the same keys.
LEMMA RestartKeeps ==
  ASSUME RotationInv, Restart
  PROVE  RotationInv' /\ \A c \in DOMAIN row : Decrypts(row[c]) => Decrypts(row[c])'
<1>1. KeysLoaded /\ Labelled /\ RestartWith(env) /\ Interrupted
  BY DEF RotationInv, Restart
<1>2. env' = env /\ keys' = keys /\ row' = row /\ current' = Max(DOMAIN keys)
  BY <1>1 DEF RestartWith, KeysLoaded
<1>3. current' = current
  BY <1>1, <1>2, MaxIs DEF KeysLoaded
<1>4. KeysLoaded'
  BY <1>1, <1>2, <1>3 DEF KeysLoaded
<1>5. Labelled'
  BY <1>1, <1>2, <1>3 DEF Labelled
<1>6. RotationInv'
  BY <1>1, <1>3, <1>4, <1>5, InterruptedKeeps, RestartIsEnough DEF RotationInv, TypeOK
<1>7. QED BY <1>2, <1>6 DEF Decrypts

\* A new key gets the next number; the old ones stay, so nothing becomes unreadable.
LEMMA AddKeyKeeps ==
  ASSUME RotationInv, NEW k \in Keys, AddKey(k)
  PROVE  RotationInv' /\ \A c \in DOMAIN row : Decrypts(row[c]) => Decrypts(row[c])'
<1> DEFINE vs == [v \in DOMAIN keys \cup {current + 1} |-> IF v \in DOMAIN keys THEN keys[v] ELSE k]
           e == [primary |-> k, versioned |-> vs]
<1>1. KeysLoaded /\ Labelled /\ RestartWith(e) /\ current < MaxVersion
  BY DEF RotationInv, AddKey
<1>2. /\ current \in 1..MaxVersion /\ MaxVersion \in Nat
      /\ DOMAIN keys \subseteq 1..MaxVersion /\ \A v \in DOMAIN keys : v <= current
  BY <1>1, ConstantsAssumption DEF KeysLoaded
<1>3. /\ DOMAIN vs = DOMAIN keys \cup {current + 1} /\ current + 1 \notin DOMAIN keys
      /\ vs[current + 1] = k /\ \A v \in DOMAIN keys : vs[v] = keys[v]
  BY <1>2
<1>4. e.primary = k /\ e.versioned = vs
  OBVIOUS
<1> HIDE DEF vs, e
<1>5. DOMAIN vs \subseteq 1..MaxVersion /\ \A v \in DOMAIN vs : v <= current + 1
  BY <1>1, <1>2, <1>3
<1>6. env' = e /\ keys' = vs /\ current' = current + 1
  <2>1. DOMAIN e.versioned \subseteq Nat
    BY <1>4, <1>5
  <2>2. current + 1 \in DOMAIN e.versioned /\ e.primary = e.versioned[current + 1]
        /\ \A v \in DOMAIN e.versioned : v <= current + 1
    BY <1>3, <1>4, <1>5
  <2>3. env' = e /\ keys' = e.versioned /\ current' = current + 1
    BY <1>1, <2>1, <2>2, NumberedKeysLoad
  <2>4. QED BY <1>4, <2>3
<1>7. row' = row
  BY <1>1 DEF RestartWith
<1>8. \A v \in DOMAIN vs : vs[v] \in Keys
  BY <1>1, <1>3 DEF KeysLoaded
<1>9. KeysLoaded'
  <2>1. keys' = LoadKeys(env')
    BY <1>1 DEF RestartWith
  <2>2. QED BY <1>3, <1>4, <1>5, <1>6, <1>8, <2>1 DEF KeysLoaded, LoadKeys
<1>10. Labelled'
  <2>1. \A c \in DOMAIN row : row[c].version \in Nat /\ row[c].version <= current
    BY <1>1, <1>2 DEF Labelled, RotationInv, TypeOK, RowsTyped, Cipher
  <2>2. \A c \in DOMAIN row : row[c].version <= current + 1 /\ row[c].version # current + 1
    BY <1>2, <2>1
  <2>3. QED BY <1>6, <1>7, <2>2 DEF Labelled
<1>11. RotationInv'
  <2>1. status' = "none" /\ rot' = [m \in Rotations |-> IdleRotation]
    BY DEF AddKey
  <2>2. IdleRotation.pc = "idle"
    BY DEF IdleRotation, Rotation
  <2>3. StatusHolds' /\ QuietRotationCompletes'
    BY <2>1, <2>2 DEF StatusHolds, QuietRotationCompletes
  <2>4. QED BY <1>1, <1>4, <1>5, <1>8, <1>9, <1>10, <2>1, <2>3, RestartIsEnough
<1>12. Range(keys) \subseteq Range(vs) /\ DOMAIN keys \subseteq DOMAIN vs
  BY <1>3 DEF Range
<1>13. QED BY <1>6, <1>7, <1>11, <1>12 DEF Decrypts

\* When old versions go, what could be decrypted and is on the current one is under
\* the current key, which stays; and an assured operator has every row there.
LEMMA RemoveKeysKeeps ==
  ASSUME RotationInv, NEW gone, RemoveKeys(gone)
  PROVE  /\ RotationInv'
         /\ \A c \in DOMAIN row :
              Decrypts(row[c])
                => \/ Decrypts(row[c])'
                   \/ NeedsRotation(row[c]) /\ DOMAIN keys' # DOMAIN keys /\ ~Assured
<1> DEFINE vs == [v \in DOMAIN env.versioned \ gone |-> env.versioned[v]]
           e == [primary |-> env.primary, versioned |-> vs]
<1>1. /\ KeysLoaded /\ Labelled /\ RestartWith(e) /\ Interrupted
      /\ gone # {} /\ gone \subseteq DOMAIN env.versioned \ {current}
  BY DEF RotationInv, RemoveKeys
<1>2. env.versioned = keys /\ env.primary = keys[current]
  BY <1>1 DEF KeysLoaded
<1>3. DOMAIN vs = DOMAIN keys \ gone /\ \A v \in DOMAIN vs : vs[v] = keys[v]
  BY <1>2
<1>4. e.primary = keys[current] /\ e.versioned = vs
  BY <1>2
<1> HIDE DEF vs, e
<1>5. /\ current \in DOMAIN vs /\ vs[current] = keys[current]
      /\ DOMAIN vs \subseteq 1..MaxVersion /\ \A v \in DOMAIN vs : vs[v] \in Keys /\ v <= current
  BY <1>1, <1>3 DEF KeysLoaded
<1>6. env' = e /\ keys' = vs /\ current' = current
  <2>1. DOMAIN e.versioned \subseteq Nat
    BY <1>4, <1>5
  <2>2. current \in DOMAIN e.versioned /\ e.primary = e.versioned[current]
        /\ \A v \in DOMAIN e.versioned : v <= current
    BY <1>4, <1>5
  <2>3. QED BY <1>1, <1>4, <2>1, <2>2, NumberedKeysLoad
<1>7. row' = row
  BY <1>1 DEF RestartWith
<1>8. KeysLoaded'
  <2>1. keys' = LoadKeys(env')
    BY <1>1 DEF RestartWith
  <2>2. QED BY <1>4, <1>5, <1>6, <2>1 DEF KeysLoaded
<1>9. \A c \in DOMAIN row : ~NeedsRotation(row[c]) => row[c].version = current
  <2>1. \A c \in DOMAIN row : row[c].version \in Nat /\ row[c].version <= current
    BY <1>1, ConstantsAssumption DEF Labelled, RotationInv, TypeOK, RowsTyped, Cipher
  <2>2. current \in Nat
    BY <1>1, ConstantsAssumption DEF KeysLoaded
  <2>3. QED BY <2>1, <2>2 DEF NeedsRotation
<1>n. Assured => \A c \in DOMAIN row : ~NeedsRotation(row[c])
  BY DEF Assured, RotationInv, StatusHolds, QuietRotationCompletes, TypeOK, RowsTyped, Creds
<1>10. Range(vs) \subseteq Range(keys) /\ keys[current] \in Range(vs)
  BY <1>3, <1>5 DEF Range
<1>11. Labelled'
  BY <1>1, <1>5, <1>6, <1>7, <1>10 DEF Labelled
<1>12. RotationInv'
  <2>1. e.primary \in Keys
    BY <1>4, <1>1 DEF KeysLoaded
  <2>2. QED BY <1>1, <1>4, <1>5, <1>6, <1>8, <1>11, <2>1, InterruptedKeeps, RestartIsEnough
<1>13. ASSUME NEW c \in DOMAIN row, ~NeedsRotation(row[c]), Decrypts(row[c])
       PROVE  Decrypts(row[c])'
  BY <1>1, <1>5, <1>6, <1>7, <1>9, <1>10, <1>13 DEF Decrypts, Labelled
<1>14. DOMAIN keys' # DOMAIN keys
  BY <1>1, <1>2, <1>3, <1>6
<1>15. QED BY <1>12, <1>13, <1>14, <1>n
------------------------------------------------------------------------------
(* The invariant *)

\* One key, under which every readable row is, and nothing in progress.
LEMMA InitHolds ==
  ASSUME Init
  PROVE  RotationInv
<1>1. PICK ids \in SUBSET Creds :
        /\ row \in [ids -> [version : {1}, key : {FirstKey, LostKey}, secret : Secrets]]
        /\ unused = Creds \ ids
        /\ \E u \in Orders(ids \cap UserCreds), o \in Orders(ids \cap OrgCreds) : order = <<u, o>>
  BY DEF Init
<1>2. /\ env = [primary |-> FirstKey, versioned |-> NoBatch] /\ status = "none"
      /\ keys = LoadKeys(env) /\ current = Max(DOMAIN keys)
      /\ rot = [m \in Rotations |-> IdleRotation]
  BY DEF Init
<1>3. env.primary = FirstKey /\ DOMAIN env.versioned = {}
  BY <1>2 DEF NoBatch
<1>4. keys = [v \in {1} |-> FirstKey]
  BY <1>2, <1>3 DEF LoadKeys
<1>5. DOMAIN keys = {1} /\ keys[1] = FirstKey /\ Range(keys) = {FirstKey}
  BY <1>4 DEF Range
<1>6. current = 1
  BY <1>2, <1>5, MaxIs
<1>7. 1 \in 1..MaxVersion
  BY ConstantsAssumption
<1>8. KeysLoaded
  <2>1. FirstKey \in Keys
    BY ConstantsAssumption
  <2>2. \A v \in DOMAIN keys : keys[v] \in Keys /\ v <= current
    BY <1>5, <1>6, <2>1
  <2>3. keys = LoadKeys(env) /\ DOMAIN env.versioned = {}
    BY <1>2, <1>3
  <2>4. DOMAIN keys \subseteq 1..MaxVersion /\ current \in DOMAIN keys
    BY <1>5, <1>6, <1>7
  <2>5. QED BY <2>2, <2>3, <2>4 DEF KeysLoaded
<1>9. /\ DOMAIN row = ids
      /\ \A c \in ids : row[c].version = 1 /\ row[c].key \in {FirstKey, LostKey} /\ row[c] \in Cipher
  BY <1>1, <1>7, ConstantsAssumption DEF Cipher
<1>10. Labelled
  BY <1>5, <1>6, <1>9 DEF Labelled
<1>11. RowsTyped
  <2>1. PICK u \in Orders(ids \cap UserCreds), o \in Orders(ids \cap OrgCreds) : order = <<u, o>>
    BY <1>1
  <2>2. IsFiniteSet(ids \cap UserCreds) /\ IsFiniteSet(ids \cap OrgCreds)
    BY ConstantsAssumption, FS_Subset
  <2>3. /\ u \in Seq(ids \cap UserCreds) /\ Range(u) = ids \cap UserCreds
        /\ o \in Seq(ids \cap OrgCreds) /\ Range(o) = ids \cap OrgCreds
    BY <2>2, OrderFacts
  <2>4. u \in Seq(Creds) /\ o \in Seq(Creds)
    BY <2>3 DEF Creds
  <2>5. order[1] = u /\ order[2] = o /\ order \in [{1, 2} -> Seq(Creds)]
    BY <2>1, <2>4
  <2>6. \A t \in {1, 2} : Range(order[t]) = {c \in DOMAIN row : Table(c) = t}
    BY <1>1, <1>9, <2>3, <2>5, ConstantsAssumption DEF Table, Creds
  <2>7. QED BY <1>1, <1>9, <2>5, <2>6 DEF RowsTyped
<1>12. IdleRotation.pc = "idle" /\ RotationTyped(IdleRotation)
  BY IdleFacts DEF IdleRotation, Rotation
<1>13. /\ DOMAIN rot = Rotations
       /\ \A m \in Rotations : RotationTyped(rot[m]) /\ BatchFollowed(m) /\ Progress(m)
                               /\ rot[m].pc = "idle"
  <2>1. DOMAIN rot = Rotations /\ \A m \in Rotations : rot[m] = IdleRotation
    BY <1>2
  <2>2. QED BY <1>12, <2>1 DEF BatchFollowed, Progress
<1>14. TypeOK
  BY <1>2, <1>3, <1>11, <1>13, ConstantsAssumption DEF TypeOK
<1>15. StatusHolds /\ QuietRotationCompletes
  BY <1>2, <1>13 DEF StatusHolds, QuietRotationCompletes
<1>16. QED BY <1>8, <1>10, <1>13, <1>14, <1>15 DEF RotationInv


\* A step of the service or of a rotation keeps the keys and improves the rows.
LEMMA ServiceKeeps ==
  ASSUME RotationInv, Service \/ \E m \in Rotations : Rotate(m)
  PROVE  Kept /\ status' = status
<1>1. ASSUME NEW c \in Creds, NEW s \in Secrets, NEW p \in 1..Len(order[Table(c)]) + 1,
             Create(c, s, p)
      PROVE  Kept /\ status' = status
  BY <1>1, CreateKeeps DEF Create
<1>2. ASSUME NEW c \in Creds, NEW s \in Secrets, Update(c, s)
      PROVE  Kept /\ status' = status
  BY <1>2, UpdateKeeps DEF Update
<1>3. ASSUME NEW c \in Creds, Delete(c) PROVE Kept /\ status' = status
  BY <1>3, DeleteKeeps DEF Delete
<1>4. ASSUME NEW t \in {1, 2}, Reorder(t) PROVE Kept /\ status' = status
  BY <1>4, ReorderKeeps DEF Reorder
<1>5. ASSUME NEW m \in Rotations, Start(m) PROVE Kept /\ status' = status
  BY <1>5, StartKeeps DEF Start
<1>6. ASSUME NEW m \in Rotations, FetchBatch(m) PROVE Kept /\ status' = status
  BY <1>6, FetchKeeps DEF FetchBatch
<1>7. ASSUME NEW m \in Rotations, TableDone(m) PROVE Kept /\ status' = status
  BY <1>7, TableDoneKeeps DEF TableDone
<1>8. ASSUME NEW m \in Rotations, CommitBatch(m) PROVE Kept /\ status' = status
  BY <1>8, CommitKeeps DEF CommitBatch
<1>9. ASSUME NEW m \in Rotations, RotationRaises(m) PROVE Kept /\ status' = status
  BY <1>9, RaisesKeeps DEF RotationRaises
<1>10. QED BY <1>1, <1>2, <1>3, <1>4, <1>5, <1>6, <1>7, <1>8, <1>9 DEF Service, Rotate

\* Every step keeps the invariant, and every row that can be decrypted.
LEMMA NextKeeps ==
  ASSUME RotationInv, [Next]_vars
  PROVE  /\ RotationInv'
         /\ \A c \in DOMAIN row \cap DOMAIN row' :
              Decrypts(row[c])
                => \/ Decrypts(row[c])'
                   \/ NeedsRotation(row[c]) /\ DOMAIN keys' # DOMAIN keys /\ ~Assured
<1>1. KeysLoaded /\ Labelled /\ StatusHolds /\ status \in {"none", "users", "all"}
  BY DEF RotationInv, TypeOK
<1>2. CASE Service \/ \E m \in Rotations : Rotate(m)
  <2>1. Kept /\ RowsImprove /\ status' = status
    BY <1>2, ServiceKeeps DEF Kept
  <2>2. RotationInv'
    BY <1>1, <2>1, StatusStays, KeptIsEnough
  <2>3. QED BY <1>1, <2>1, <2>2, ImproveKeeps
<1>3. CASE CountUsers \/ CountOrgs
  BY <1>1, <1>3, CountKeeps, ImproveKeeps
<1>4. CASE Restart
  BY <1>4, RestartKeeps
<1>5. CASE \E k \in Keys : AddKey(k)
  BY <1>5, AddKeyKeeps
<1>6. CASE \E gone \in SUBSET DOMAIN env.versioned : RemoveKeys(gone)
  BY <1>6, RemoveKeysKeeps
<1>7. CASE UNCHANGED vars
  <2>1. UNCHANGED <<env, keys, current, row, unused, order, rot, status>>
    BY <1>7 DEF vars
  <2>2. RotationInv'
    <3>1. TypeOK'
      BY <2>1 DEF RotationInv, TypeOK, RowsTyped, RotationTyped
    <3>2. KeysLoaded' /\ Labelled' /\ StatusHolds' /\ QuietRotationCompletes'
      BY <2>1 DEF RotationInv, KeysLoaded, Labelled, StatusHolds, QuietRotationCompletes,
                  NeedsRotation
    <3>3. \A m \in Rotations : BatchFollowed(m)' /\ Progress(m)'
      BY <2>1 DEF RotationInv, BatchFollowed, Progress, NeedsRotation
    <3>4. QED BY <3>1, <3>2, <3>3 DEF RotationInv
  <2>3. QED BY <2>1, <2>2 DEF Decrypts
<1>8. QED BY <1>2, <1>3, <1>4, <1>5, <1>6, <1>7 DEF Next, Operate

\* Only the commit of a batch takes a rotation out of its commit and writes rows,
\* and what it writes is what the batch held.
LEMMA NextKeepsSecrets ==
  ASSUME RotationInv, [Next]_vars, NEW m \in Rotations, NEW c \in DOMAIN row \cap DOMAIN row',
         rot[m].pc = "commit", rot'[m].pc # "commit", row'[c].secret # row[c].secret
  PROVE  c \in rot[m].changed
<1>1. row' # row /\ row'[c] # row[c] /\ DOMAIN rot = Rotations
  BY DEF RotationInv, TypeOK
<1>2. ASSUME rot' = rot \/ (\E cs \in SUBSET Creds, b \in BOOLEAN : rot' = Noticed(cs, b))
      PROVE  FALSE
  <2>1. CASE rot' = rot
    BY <2>1
  <2>2. CASE \E cs \in SUBSET Creds, b \in BOOLEAN : rot' = Noticed(cs, b)
    <3>1. Stays(m)
      BY <2>2, NoticedFacts
    <3>2. QED BY <3>1 DEF Stays
  <2>3. QED BY <1>2, <2>1, <2>2
<1>3. ~Service
  <2>1. ASSUME NEW x \in Creds, NEW s \in Secrets, Update(x, s) PROVE FALSE
    <3>1. rot' = Noticed({x}, FALSE)
      BY <2>1 DEF Update
    <3>2. QED BY <1>2, <3>1
  <2>2. ASSUME NEW x \in Creds, NEW s \in Secrets, NEW p \in 1..Len(order[Table(x)]) + 1,
               Create(x, s, p)
        PROVE  FALSE
    BY <1>2, <2>2 DEF Create
  <2>3. ASSUME NEW x \in Creds, Delete(x) PROVE FALSE
    <3>1. rot' = Noticed({}, TRUE)
      BY <2>3 DEF Delete
    <3>2. QED BY <1>2, <3>1
  <2>4. ASSUME NEW t \in {1, 2}, Reorder(t) PROVE FALSE
    BY <1>1, <2>4 DEF Reorder
  <2>5. QED BY <2>1, <2>2, <2>3, <2>4 DEF Service
<1>4. ~Operate
  BY <1>1 DEF Operate, CountUsers, CountOrgs, Restart, AddKey, RemoveKeys, RestartWith
<1>5. PICK x \in Rotations : Rotate(x)
  BY <1>1, <1>3, <1>4 DEF Next, vars
<1>6. CommitBatch(x)
  <2>1. ~Start(x) /\ ~RotationRaises(x)
    BY <1>1 DEF Start, RotationRaises
  <2>2. FetchBatch(x) => row' = row
    BY DEF FetchBatch
  <2>3. TableDone(x) => row' = row
    BY DEF TableDone
  <2>4. QED BY <1>1, <1>5, <2>1, <2>2, <2>3 DEF Rotate
<1>7. x = m
  <2>1. SUFFICES ASSUME x # m PROVE FALSE
    OBVIOUS
  <2> DEFINE r == rot[x]
             old == {y \in DOMAIN r.batch : NeedsRotation(r.batch[y])}
             migrated == {y \in old : Decrypts(r.batch[y])}
             changed == {y \in migrated : y \in DOMAIN row /\ row[y].secret # r.batch[y].secret}
             n == Rotation("select", r.tab, r.offset + BatchSize, NoBatch,
                           r.smooth /\ migrated = old, {})
  <2>2. rot' = [Noticed(changed, FALSE) EXCEPT ![x] = n]
    BY <1>6 DEF CommitBatch
  <2>3. changed \subseteq Creds
    BY DEF RotationInv, TypeOK, RowsTyped
  <2> HIDE DEF changed, n
  <2>4. rot'[m] = Noticed(changed, FALSE)[m]
    BY <2>1, <2>2 DEF Noticed
  <2>5. Stays(m)
    BY <2>3, <2>4, NoticedFacts
  <2>6. QED BY <2>5 DEF Stays
<1>8. c \in DOMAIN rot[m].batch /\ row'[c].secret = rot[m].batch[c].secret
  BY <1>1, <1>6, <1>7, CommitRows
<1>9. QED BY <1>8 DEF RotationInv, BatchFollowed
------------------------------------------------------------------------------
(* Theorems *)

\* The invariant behind the others holds in every reachable state.
THEOREM RotationInvariance == Spec => []RotationInv
<1>1. Init => RotationInv
  BY InitHolds
<1>2. RotationInv /\ [Next]_vars => RotationInv'
  BY NextKeeps
<1>3. QED BY <1>1, <1>2, PTL DEF Spec

\* Key versions, stored rows, their order and the batches of rotations keep their
\* types through every operation of the service and of the operator.
THEOREM RotationTypes == Spec => []TypeOK
<1>1. RotationInv => TypeOK
  BY DEF RotationInv
<1>2. QED BY <1>1, RotationInvariance, PTL

\* A rotation that reports success without failures, over a table that kept its
\* order, has left no row on an old key version.
THEOREM SmoothRotationsComplete == Spec => []QuietRotationCompletes
<1>1. RotationInv => QuietRotationCompletes
  BY DEF RotationInv
<1>2. QED BY <1>1, RotationInvariance, PTL

\* No step makes a stored credential unreadable that could be decrypted before: not
\* a rotation that overlaps updates and other rotations, not a restart in the middle
\* of one, not the removal of old keys, unless the row is on an old version and the
\* keys go on the word of a report whose rotation skipped or failed to read a row.
THEOREM CredentialsStayReadable == Spec => KeepsReadable
<1>1. RotationInv /\ [Next]_vars
        => [\A c \in DOMAIN row \cap DOMAIN row' :
              Decrypts(row[c])
                => \/ Decrypts(row[c])'
                   \/ NeedsRotation(row[c]) /\ DOMAIN keys' # DOMAIN keys /\ ~Assured]_<<row, keys>>
  BY NextKeeps
<1>2. QED BY <1>1, RotationInvariance, PTL DEF Spec, KeepsReadable

\* A rotation overwrites no content but one that changed after it read the batch.
THEOREM SecretsSurvive == Spec => KeepsSecrets
<1>1. RotationInv /\ [Next]_vars
        => [\A m \in Rotations, c \in DOMAIN row \cap DOMAIN row' :
              rot[m].pc = "commit" /\ rot'[m].pc # "commit" /\ row'[c].secret # row[c].secret
                => c \in rot[m].changed]_row
  BY NextKeepsSecrets
<1>2. QED BY <1>1, RotationInvariance, PTL DEF Spec, KeepsSecrets
==============================================================================
