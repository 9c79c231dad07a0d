------------------------------ MODULE Startup ------------------------------
(***************************************************************************)
(* The start of the workers of a deployment that share the key files and   *)
(* the database: lifespan loads or generates the signing keys, creates the *)
(* tables and seeds the admin and the default clients, with nothing that   *)
(* keeps two workers from doing so at once.  A worker that fails to start, *)
(* or crashes, is started again.                                           *)
(*                                                                         *)
(* A definition whose name starts with Bug is a faulty variant of the one  *)
(* that follows it, no part of the specification.                          *)
(***************************************************************************)
EXTENDS Naturals

CONSTANTS
    Worker,
    MaxCrash,   \* bound on the crashes of a run
    MaxPairs    \* bound on the key pairs that are generated

VARIABLES
    private,    \* the private key file: Missing, Empty or the number of a pair
    public,     \* the public key file
    made,       \* how many pairs were generated
    schema,     \* whether the tables exist
    row,        \* each default row: absent, committed or its inserting worker
    worker,     \* what each worker holds in memory
    crashes,
    raced       \* history: two workers generated at once, or one crashed at it

files == <<private, public>>
vars == <<files, made, schema, row, worker, crashes, raced>>

Missing == 0 - 1
Empty == 0
Pair == 1 .. MaxPairs

(* In the order of seed_default_data: the admin, the public client and the *)
(* confidential client.                                                    *)
Default == 1 .. 3

Label == {"down", "keys", "readPrivate", "readPublic", "generate", "openPrivate", "writePrivate",
          "openPublic", "writePublic", "schema", "tables", "seed", "up", "failed"}

Worker0 == [pc |-> "down", private |-> Missing, public |-> Missing, next |-> 1, pending |-> 0,
            faulty |-> FALSE]

Generating(w) ==
    worker[w].pc \in {"generate", "openPrivate", "writePrivate", "openPublic", "writePublic"}

Goto(w, label) == worker' = [worker EXCEPT ![w].pc = label]

-----------------------------------------------------------------------------
(* RSAKeyManager.load_keys                                                 *)

Start(w) ==
    /\ worker[w].pc \in {"down", "failed"}
    /\ worker' = [worker EXCEPT ![w] = [Worker0 EXCEPT !.pc = "keys"]]
    /\ UNCHANGED <<files, made, schema, row, crashes, raced>>

(* Every worker generates its own keys. *)
BugCheckKeys(w) ==
    /\ worker[w].pc = "keys"
    /\ Goto(w, "generate")
    /\ raced' = (raced \/ \E v \in Worker : Generating(v))
    /\ UNCHANGED <<files, made, schema, row, crashes>>

CheckKeys(w) ==
    /\ worker[w].pc = "keys"
    /\ IF private = Missing
       THEN Goto(w, "generate") /\ raced' = (raced \/ \E v \in Worker : Generating(v))
       ELSE Goto(w, "readPrivate") /\ UNCHANGED raced
    /\ UNCHANGED <<files, made, schema, row, crashes>>

ReadPrivate(w) ==
    /\ worker[w].pc = "readPrivate"
    /\ worker' = [worker EXCEPT ![w].private = private,
                                ![w].pc = IF private = Empty THEN "failed" ELSE "readPublic"]
    /\ UNCHANGED <<files, made, schema, row, crashes, raced>>

ReadPublic(w) ==
    /\ worker[w].pc = "readPublic"
    /\ worker' = [worker EXCEPT ![w].public = public,
                                ![w].pc = IF public \in {Missing, Empty} THEN "failed" ELSE "schema"]
    /\ UNCHANGED <<files, made, schema, row, crashes, raced>>

GenerateKeys(w) ==
    /\ worker[w].pc = "generate"
    /\ made < MaxPairs
    /\ made' = made + 1
    /\ worker' = [worker EXCEPT ![w].private = made', ![w].public = made', ![w].pc = "openPrivate"]
    /\ UNCHANGED <<files, schema, row, crashes, raced>>

(* save_keys: open(..., "wb") empties a file before it is written.         *)
OpenPrivate(w) ==
    /\ worker[w].pc = "openPrivate"
    /\ private' = Empty
    /\ Goto(w, "writePrivate")
    /\ UNCHANGED <<public, made, schema, row, crashes, raced>>

WritePrivate(w) ==
    /\ worker[w].pc = "writePrivate"
    /\ private' = worker[w].private
    /\ Goto(w, "openPublic")
    /\ UNCHANGED <<public, made, schema, row, crashes, raced>>

OpenPublic(w) ==
    /\ worker[w].pc = "openPublic"
    /\ public' = Empty
    /\ Goto(w, "writePublic")
    /\ UNCHANGED <<private, made, schema, row, crashes, raced>>

WritePublic(w) ==
    /\ worker[w].pc = "writePublic"
    /\ public' = worker[w].public
    /\ Goto(w, "schema")
    /\ UNCHANGED <<private, made, schema, row, crashes, raced>>

-----------------------------------------------------------------------------
(* init_db: the missing tables are looked up and then created.             *)

LookUpTables(w) ==
    /\ worker[w].pc = "schema"
    /\ Goto(w, IF schema THEN "seed" ELSE "tables")
    /\ UNCHANGED <<files, made, schema, row, crashes, raced>>

(* It fails when another worker created them in between.                   *)
CreateTables(w) ==
    /\ worker[w].pc = "tables"
    /\ Goto(w, IF schema THEN "failed" ELSE "seed")
    /\ schema' = TRUE
    /\ UNCHANGED <<files, made, row, crashes, raced>>

-----------------------------------------------------------------------------
(* seed_default_data: one transaction; an INSERT is sent with the next     *)
(* SELECT or with COMMIT, and waits for a worker that inserted the same    *)
(* row and has not committed.                                              *)

Seeding(w) == worker[w].pc = "seed"

LookUpDefault(w) ==
    /\ Seeding(w) /\ worker[w].pending = 0
    /\ worker[w].next \in Default
    /\ worker' = [worker EXCEPT ![w].next = @ + 1,
                                ![w].pending = IF row[worker[w].next] = "committed"
                                               THEN 0 ELSE worker[w].next]
    /\ UNCHANGED <<files, made, schema, row, crashes, raced>>

(* The admin is committed on its own. *)
BugInsertDefault(w) ==
    /\ Seeding(w) /\ worker[w].pending # 0
    /\ row[worker[w].pending] = "absent"
    /\ row' = [row EXCEPT ![worker[w].pending] = IF worker[w].pending = 1 THEN "committed" ELSE w]
    /\ worker' = [worker EXCEPT ![w].pending = 0]
    /\ UNCHANGED <<files, made, schema, crashes, raced>>

InsertDefault(w) ==
    /\ Seeding(w) /\ worker[w].pending # 0
    /\ row[worker[w].pending] = "absent"
    /\ row' = [row EXCEPT ![worker[w].pending] = w]
    /\ worker' = [worker EXCEPT ![w].pending = 0]
    /\ UNCHANGED <<files, made, schema, crashes, raced>>

CommitDefaults(w) ==
    /\ Seeding(w) /\ worker[w].pending = 0
    /\ worker[w].next \notin Default
    /\ row' = [d \in Default |-> IF row[d] = w THEN "committed" ELSE row[d]]
    /\ Goto(w, "up")
    /\ UNCHANGED <<files, made, schema, crashes, raced>>

RolledBack(w) == [d \in Default |-> IF row[d] = w THEN "absent" ELSE row[d]]

(* The row was committed by another worker: the error is logged, rolled    *)
(* back, and the start goes on.                                            *)
SeedConflict(w) ==
    /\ Seeding(w) /\ worker[w].pending # 0
    /\ row[worker[w].pending] = "committed"
    /\ row' = RolledBack(w)
    /\ Goto(w, "up")
    /\ UNCHANGED <<files, made, schema, crashes, raced>>

(* The transaction is left open. *)
BugSeedFault(w) ==
    /\ Seeding(w)
    /\ worker' = [worker EXCEPT ![w].pc = "up", ![w].faulty = TRUE]
    /\ UNCHANGED <<files, made, schema, row, crashes, raced>>

(* A statement fails for another reason, which is swallowed as well.       *)
SeedFault(w) ==
    /\ Seeding(w)
    /\ row' = RolledBack(w)
    /\ worker' = [worker EXCEPT ![w].pc = "up", ![w].faulty = TRUE]
    /\ UNCHANGED <<files, made, schema, crashes, raced>>

-----------------------------------------------------------------------------
(* A worker stops, at any point; an open transaction is rolled back.       *)
Crash(w) ==
    /\ worker[w].pc # "down"
    /\ crashes < MaxCrash
    /\ crashes' = crashes + 1
    /\ row' = RolledBack(w)
    /\ raced' = (raced \/ worker[w].pc \in {"writePrivate", "openPublic", "writePublic"})
    /\ worker' = [worker EXCEPT ![w] = Worker0]
    /\ UNCHANGED <<files, made, schema>>

-----------------------------------------------------------------------------
Init ==
    /\ private = Missing
    /\ public = Missing
    /\ made = 0
    /\ schema = FALSE
    /\ row = [d \in Default |-> "absent"]
    /\ worker = [w \in Worker |-> Worker0]
    /\ crashes = 0
    /\ raced = FALSE

LoadKeys(w) ==
    \/ CheckKeys(w)
    \/ ReadPrivate(w)
    \/ ReadPublic(w)
    \/ GenerateKeys(w)
    \/ OpenPrivate(w)
    \/ WritePrivate(w)
    \/ OpenPublic(w)
    \/ WritePublic(w)

Seed(w) ==
    \/ LookUpDefault(w)
    \/ InsertDefault(w)
    \/ CommitDefaults(w)
    \/ SeedConflict(w)

Advance(w) == Start(w) \/ LoadKeys(w) \/ LookUpTables(w) \/ CreateTables(w) \/ Seed(w)

Next == \E w \in Worker : Advance(w) \/ SeedFault(w) \/ Crash(w)

(* A worker that is not stopped goes on, and the container of one that     *)
(* failed or crashed is restarted.                                         *)
Spec == Init /\ [][Next]_vars /\ \A w \in Worker : WF_vars(Advance(w))

-----------------------------------------------------------------------------
(* Properties                                                              *)

Up(w) == worker[w].pc = "up"

(* Every variable has its type, a pair in a file was generated, and a row  *)
(* that is not committed is that of a worker whose transaction is open.    *)
TypeOK ==
    /\ private \in {Missing, Empty} \cup 1 .. made
    /\ public \in {Missing, Empty} \cup 1 .. made
    /\ made \in 0 .. MaxPairs
    /\ schema \in BOOLEAN
    /\ row \in [Default -> {"absent", "committed"} \cup Worker]
    /\ worker \in [Worker -> [pc: Label, private: {Missing, Empty} \cup Pair,
                              public: {Missing, Empty} \cup Pair, next: 1 .. 4, pending: 0 .. 3,
                              faulty: BOOLEAN]]
    /\ crashes \in 0 .. MaxCrash
    /\ raced \in BOOLEAN
    /\ \A d \in Default, w \in Worker : row[d] = w => Seeding(w)

(* Workers sign and validate with the one pair that is in the files, unless*)
(* two of them generated keys at once or one crashed while it saved them.  *)
WorkersShareKeys ==
    ~raced => \A w \in Worker : Up(w) => /\ worker[w].private = private
                                         /\ worker[w].public = public
                                         /\ private = public

(* A worker whose database did not fail comes up with all defaults in the  *)
(* tables, though another one may have seeded some of them and stopped.    *)
UpMeansSeeded ==
    \A w \in Worker : Up(w) /\ ~worker[w].faulty =>
        schema /\ \A d \in Default : row[d] = "committed"

(* A worker that starts comes up, through races for the tables and the     *)
(* rows and through files that are being written, unless it crashes or the *)
(* key files were left unfinished.                                         *)
StartSucceeds ==
    \A w \in Worker : worker[w].pc = "keys" ~> (Up(w) \/ worker[w].pc = "down" \/ raced)
=============================================================================
