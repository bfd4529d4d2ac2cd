----------------------------- MODULE KeyRotation -----------------------------
(* Encryption keys and stored credentials: the SecretsManager that labels     *)
(* every ciphertext with a key version, the CredentialService that writes     *)
(* rows, the KeyRotationService that walks both tables in batches, and an     *)
(* operator who adds a key, rotates, looks at the status and removes old      *)
(* keys. Everything that decrypts runs in the gateway's container with the    *)
(* gateway's environment, and a change of the environment restarts it.        *)
(* Encryption itself is opaque: a ciphertext is its label, its key and what   *)
(* it contains.                                                               *)
EXTENDS Naturals, FiniteSetsExt, SequencesExt

CONSTANTS
  UserCreds, OrgCreds,  \* ids of the rows of user_credentials, organization_credentials
  Keys,                 \* key material
  FirstKey,             \* the key the deployment starts with
  LostKey,              \* a key no configuration has any more
  Orphans,              \* credentials that may have been stored under it
  Secrets,              \* what a credential may contain
  Rotations,            \* calls of rotate_all_credentials, from the endpoint or the CLI
  BatchSize,            \* batch_size
  MaxVersion            \* bound: key versions the operator ever introduces

ASSUME ConstantsAssumption ==
  /\ IsFiniteSet(UserCreds) /\ IsFiniteSet(OrgCreds)
  /\ UserCreds \cap OrgCreds = {}
  /\ FirstKey \in Keys /\ LostKey \notin Keys
  /\ BatchSize \in Nat \ {0}
  /\ MaxVersion \in Nat \ {0}

Creds == UserCreds \cup OrgCreds
Table(c) == IF c \in UserCreds THEN 1 ELSE 2

\* A stored ciphertext; one without a prefix parses as version 1.
Cipher == [version : 1..MaxVersion, key : Keys \cup {LostKey}, secret : Secrets]

VARIABLES
  env,     \* ENCRYPTION_KEY and the ENCRYPTION_KEY_V<n> the processes started with
  keys,    \* _keys: the key of every available version
  current, \* _current_version
  row,     \* the ciphertext of every stored credential
  unused,  \* ids no row has had yet
  order,   \* per table, the order in which the database returns its rows
  rot,     \* the rotations
  status   \* the tables in which the operator's last reading found nothing to rotate

vars == <<env, keys, current, row, unused, order, rot, status>>

\* Two fields are kept for the properties only. smooth: the report counts no failed
\* row, and no row moved or went since the rotation began. changed: the rows whose
\* content changed since the batch was read.
Rotation(pc, tab, offset, batch, smooth, changed) ==
  [pc |-> pc, tab |-> tab, offset |-> offset, batch |-> batch, smooth |-> smooth,
   changed |-> changed]

\* The orders in which a query may return the rows S.
Orders(S) ==
  {o \in UNION {[1..n -> S] : n \in 0..Cardinality(S)} : Range(o) = S}

NoBatch == [c \in {} |-> {}]
IdleRotation == Rotation("idle", 1, 0, NoBatch, TRUE, {})
------------------------------------------------------------------------------
(* SecretsManager *)

\* Seeded fault: a primary key that has a number gets another.
LoadKeysTwice(e) ==
  LET numbered == DOMAIN e.versioned IN
  IF numbered = {} THEN [v \in {1} |-> e.primary]
  ELSE [v \in numbered \cup {Max(numbered) + 1} |->
          IF v \in numbered THEN e.versioned[v] ELSE e.primary]

\* The versions of _init_from_env: the primary key joins the numbered ones
\* unless it is one of them.
LoadKeys(e) ==
  LET numbered == DOMAIN e.versioned IN
  IF numbered = {} THEN [v \in {1} |-> e.primary]
  ELSE IF e.primary \in Range(e.versioned) THEN e.versioned
  ELSE [v \in numbered \cup {Max(numbered) + 1} |->
          IF v \in numbered THEN e.versioned[v] ELSE e.primary]

Encrypt(s) == [version |-> current, key |-> keys[current], secret |-> s]

\* Seeded fault: the ciphertext is encrypted as it is,
\* so that what decrypts later is something else.
ReEncryptUnread(x) == Encrypt(CHOOSE s \in Secrets : s # x.secret)

ReEncrypt(x) == Encrypt(x.secret)

\* decrypt wants the labelled version and then tries that key and the others.
Decrypts(x) == x.version \in DOMAIN keys /\ x.key \in Range(keys)

NeedsRotation(x) == x.version < current
------------------------------------------------------------------------------
(* CredentialService: each operation takes effect at its commit *)

Running(m) == rot[m].pc \in {"select", "commit"}

\* The rotations after the rows of cs were given other content, or rows moved.
Noticed(cs, moved) ==
  [m \in Rotations |->
     LET r == rot[m] IN
     Rotation(r.pc, r.tab, r.offset, r.batch, r.smooth /\ ~(moved /\ Running(m)),
              IF r.pc = "commit" THEN r.changed \cup cs ELSE r.changed)]

Create(c, s, p) ==
  /\ c \in unused
  /\ p \in 1..Len(order[Table(c)]) + 1
  /\ unused' = unused \ {c}
  /\ row' = [x \in DOMAIN row \cup {c} |-> IF x = c THEN Encrypt(s) ELSE row[x]]
  /\ order' = [order EXCEPT ![Table(c)] = InsertAt(@, p, c)]
  /\ UNCHANGED <<env, keys, current, rot, status>>

Update(c, s) ==
  /\ c \in DOMAIN row
  /\ row' = [row EXCEPT ![c] = Encrypt(s)]
  /\ rot' = Noticed({c}, FALSE)
  /\ UNCHANGED <<env, keys, current, unused, order, status>>

\* The database is asked for no order: it may return the rows of a table in
\* another one whenever it likes, and does after updates and deletions.
Delete(c) ==
  /\ c \in DOMAIN row
  /\ row' = [x \in DOMAIN row \ {c} |-> row[x]]
  /\ \E o \in Orders(Range(order[Table(c)]) \ {c}) :
       order' = [order EXCEPT ![Table(c)] = o]
  /\ rot' = Noticed({}, TRUE)
  /\ UNCHANGED <<env, keys, current, unused, status>>

Reorder(t) ==
  /\ \E o \in Orders(Range(order[t])) \ {order[t]} : order' = [order EXCEPT ![t] = o]
  /\ rot' = Noticed({}, TRUE)
  /\ UNCHANGED <<env, keys, current, row, unused, status>>
------------------------------------------------------------------------------
(* rotate_all_credentials: _migrate_table for one table and then the other *)

Start(m) ==
  /\ ~Running(m)
  /\ rot' = [rot EXCEPT ![m] = Rotation("select", 1, 0, NoBatch, TRUE, {})]
  /\ UNCHANGED <<env, keys, current, row, unused, order, status>>

\* The rows that OFFSET and LIMIT leave of a table's rows in the order o.
Window(o, offset) ==
  {o[i] : i \in {j \in DOMAIN o : offset < j /\ j <= offset + BatchSize}}

\* Seeded fault: the query leaves out the rows
\* done so far, and the offset as many that are not.
FetchBatchFiltered(m) ==
  LET r == rot[m]
      old == SelectSeq(order[r.tab], LAMBDA c : NeedsRotation(row[c]))
      ids == Window(old, r.offset) IN
  /\ r.pc = "select" /\ Window(order[r.tab], r.offset) # {}
  /\ rot' = [rot EXCEPT ![m] =
       Rotation("commit", r.tab, r.offset, [c \in ids |-> row[c]],
                r.smooth, {})]
  /\ UNCHANGED <<env, keys, current, row, unused, order, status>>

FetchBatch(m) ==
  LET r == rot[m]
      ids == Window(order[r.tab], r.offset) IN
  /\ r.pc = "select" /\ ids # {}
  /\ rot' = [rot EXCEPT ![m] =
       Rotation("commit", r.tab, r.offset, [c \in ids |-> row[c]],
                r.smooth, {})]
  /\ UNCHANGED <<env, keys, current, row, unused, order, status>>

\* An empty batch ends the table; after the second the report says success.
TableDone(m) ==
  LET r == rot[m] IN
  /\ r.pc = "select" /\ Window(order[r.tab], r.offset) = {}
  /\ rot' = [rot EXCEPT ![m] =
       IF r.tab = 1 THEN Rotation("select", 2, 0, NoBatch, r.smooth, {})
                    ELSE Rotation("done", 2, 0, NoBatch, r.smooth, {})]
  /\ UNCHANGED <<env, keys, current, row, unused, order, status>>

\* The batch is re-encrypted as it was read and flushed by id; a row that does
\* not decrypt is counted and left; a row that is gone makes the flush raise.
CommitBatch(m) ==
  LET r == rot[m]
      old == {c \in DOMAIN r.batch : NeedsRotation(r.batch[c])}
      migrated == {c \in old : Decrypts(r.batch[c])}
      changed == {c \in migrated : c \in DOMAIN row /\ row[c].secret # r.batch[c].secret} IN
  /\ r.pc = "commit" /\ migrated \subseteq DOMAIN row
  /\ row' = [c \in DOMAIN row |->
               IF c \in migrated THEN ReEncrypt(r.batch[c]) ELSE row[c]]
  /\ rot' = [Noticed(changed, FALSE) EXCEPT ![m] =
       Rotation("select", r.tab, r.offset + BatchSize, NoBatch,
                r.smooth /\ migrated = old, {})]
  /\ UNCHANGED <<env, keys, current, unused, order, status>>

\* A statement raises: the batch is rolled back and the report says failure.
RotationRaises(m) ==
  /\ Running(m)
  /\ rot' = [rot EXCEPT ![m] = IdleRotation]
  /\ UNCHANGED <<env, keys, current, row, unused, order, status>>
------------------------------------------------------------------------------
(* get_encryption_status reads one table and then the other *)

CountUsers ==
  /\ status' = IF \E c \in DOMAIN row \cap UserCreds : NeedsRotation(row[c])
               THEN "none" ELSE "users"
  /\ UNCHANGED <<env, keys, current, row, unused, order, rot>>

\* Seeded fault: the second table is not counted.
CountOrgsForgotten ==
  /\ status = "users"
  /\ status' = "all"
  /\ UNCHANGED <<env, keys, current, row, unused, order, rot>>

CountOrgs ==
  /\ status = "users"
  /\ status' = IF \E c \in DOMAIN row \cap OrgCreds : NeedsRotation(row[c])
               THEN "none" ELSE "all"
  /\ UNCHANGED <<env, keys, current, row, unused, order, rot>>
------------------------------------------------------------------------------
(* The operator, by the steps that `rotate_keys generate` prints *)

\* The container ends with whatever runs in it; uncommitted batches are lost. What the
\* operator has read, reports and a status, stays known.
RestartWith(e) ==
  /\ env' = e /\ keys' = LoadKeys(e) /\ current' = Max(DOMAIN keys')
  /\ UNCHANGED <<row, unused, order>>

Interrupted ==
  /\ rot' = [m \in Rotations |-> IF rot[m].pc = "done" THEN rot[m] ELSE IdleRotation]
  /\ UNCHANGED status

Restart == RestartWith(env) /\ Interrupted

AddKey(k) ==
  /\ current < MaxVersion
  /\ k \notin Range(keys)
  /\ RestartWith([primary |-> k,
                  versioned |-> [v \in DOMAIN keys \cup {current + 1} |->
                                   IF v \in DOMAIN keys THEN keys[v] ELSE k]])
  /\ rot' = [m \in Rotations |-> IdleRotation]  \* reports on an older version count
  /\ status' = "none"                           \* for nothing now

\* Old versions go after a migration to the current one has reported success, or once
\* a status has shown nothing that needs rotation.
RemoveKeys(gone) ==
  /\ status = "all" \/ \E m \in Rotations : rot[m].pc = "done"
  /\ Interrupted
  /\ gone # {} /\ gone \subseteq DOMAIN env.versioned \ {current}
  /\ RestartWith([primary |-> env.primary,
                  versioned |-> [v \in DOMAIN env.versioned \ gone |-> env.versioned[v]]])
------------------------------------------------------------------------------
\* A gateway with one key, its rows written with it, or with a key that is lost
\* (a temporary one of development mode).
Init ==
  /\ env = [primary |-> FirstKey, versioned |-> NoBatch]
  /\ keys = LoadKeys(env) /\ current = Max(DOMAIN keys)
  /\ \E ids \in SUBSET Creds :
       /\ row \in [ids -> [version : {1}, key : {FirstKey, LostKey}, secret : Secrets]]
       /\ \A c \in ids \ Orphans : row[c].key = FirstKey
       /\ unused = Creds \ ids
       /\ \E u \in Orders(ids \cap UserCreds), o \in Orders(ids \cap OrgCreds) : order = <<u, o>>
  /\ rot = [m \in Rotations |-> IdleRotation]
  /\ status = "none"

Service ==
  \/ \E c \in Creds, s \in Secrets :
       \/ \E p \in 1..Len(order[Table(c)]) + 1 : Create(c, s, p)
       \/ Update(c, s)
  \/ \E c \in Creds : Delete(c)
  \/ \E t \in {1, 2} : Reorder(t)

Rotate(m) ==
  \/ Start(m) \/ FetchBatch(m) \/ TableDone(m) \/ CommitBatch(m) \/ RotationRaises(m)

Operate ==
  \/ CountUsers \/ CountOrgs \/ Restart
  \/ \E k \in Keys : AddKey(k)
  \/ \E gone \in SUBSET DOMAIN env.versioned : RemoveKeys(gone)

Next == Service \/ (\E m \in Rotations : Rotate(m)) \/ Operate

Spec == Init /\ [][Next]_vars
------------------------------------------------------------------------------
(* Properties *)

\* Types: versions stay within those introduced, every stored row has a place in
\* its table's order, and a batch holds ciphertexts of one table.
RowsTyped ==
  /\ unused \subseteq Creds /\ DOMAIN row \subseteq Creds \ unused
  /\ \A c \in DOMAIN row : row[c] \in Cipher
  /\ order \in [{1, 2} -> Seq(Creds)]
  /\ \A t \in {1, 2} : Range(order[t]) = {c \in DOMAIN row : Table(c) = t}

RotationTyped(r) ==
  /\ r.pc \in {"idle", "select", "commit", "done"}
  /\ r.tab \in {1, 2} /\ r.offset \in Nat /\ r.smooth \in BOOLEAN
  /\ \A c \in DOMAIN r.batch : r.batch[c] \in Cipher /\ Table(c) = r.tab
  /\ r.changed \subseteq Creds

TypeOK ==
  /\ env.primary \in Keys
  /\ DOMAIN env.versioned \subseteq 1..MaxVersion
  /\ \A v \in DOMAIN env.versioned : env.versioned[v] \in Keys
  /\ RowsTyped
  /\ DOMAIN rot = Rotations /\ \A m \in Rotations : RotationTyped(rot[m])
  /\ status \in {"none", "users", "all"}

\* What the operator knows before removing keys is reliable: a clean status, or a
\* report that counts no failed row, of a rotation during which no row moved or went.
Assured == status = "all" \/ \E m \in Rotations : rot[m].pc = "done" /\ rot[m].smooth

\* A credential that can be decrypted can be decrypted for as long as it is
\* stored: through updates, rotations that fail or overlap, restarts, new keys,
\* and the removal of old ones. The exception is the code's: keys that are removed
\* because a report said success take with them the rows that rotation skipped,
\* unless the operator is assured in the sense above. Rows on the current version
\* stay readable even then.
KeepsReadable ==
  [][\A c \in DOMAIN row \cap DOMAIN row' :
       Decrypts(row[c])
         => \/ Decrypts(row[c])'
            \/ NeedsRotation(row[c]) /\ DOMAIN keys' # DOMAIN keys /\ ~Assured]_<<row, keys>>

\* A rotation changes the content of a credential only if somebody changed it
\* after the batch it belongs to was read: what a rotation can overwrite is
\* one batch old at most.
KeepsSecrets ==
  [][\A m \in Rotations, c \in DOMAIN row \cap DOMAIN row' :
       rot[m].pc = "commit" /\ rot'[m].pc # "commit" /\ row'[c].secret # row[c].secret
         => c \in rot[m].changed]_row

\* A rotation that reports success and no failed row has left nothing on an old
\* key, whatever was stored, updated, rotated or raised meanwhile, provided that
\* the database kept its order and no row was deleted.
QuietRotationCompletes ==
  \A m \in Rotations :
    rot[m].pc = "done" /\ rot[m].smooth
      => \A c \in DOMAIN row : ~NeedsRotation(row[c])
==============================================================================
