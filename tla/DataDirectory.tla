--------------------------- MODULE DataDirectory ---------------------------
(***************************************************************************)
(* The data directory of portunus-server and the processes that meet in    *)
(* it: serve, the offline commands, restore and reset; backup only reads    *)
(* (store/mod.rs, store/backup.rs, serve.rs, main.rs, tls.rs).  Files are  *)
(* inodes: a process keeps the database and the lock sentinel it opened    *)
(* when another one unlinks their names.  Any process may die between two  *)
(* steps.  A SQLite transaction and the writing of a PEM file are one step *)
(* each; the write-ahead log is part of the database it belongs to.        *)
(***************************************************************************)
EXTENDS Integers, FiniteSets

CONSTANTS
    Procs,       \* processes on this machine
    Versions,    \* schema versions the installed binaries target
    Commands,    \* what operators run
    Hosts,       \* hosts serve may be told to advertise
    NoHost,      \* none
    Artefacts,   \* files restore may be given: sqlite, schema, rows
    MaxRuns,       \* bound: commands run
    MaxCommitted,  \* bound: rows written
    MaxInodes      \* bound: files created

ASSUME DirectoryAssumption ==
    /\ NoHost \notin Hosts /\ Versions \subseteq Nat \ {0} /\ MaxInodes \in Nat
    /\ Artefacts \subseteq [sqlite : BOOLEAN, schema : Nat, rows : SUBSET Int]

VARIABLES
    dbName,      \* inode of state.db, 0 when there is none
    lockName,    \* inode of state.db.lock, 0 when there is none
    disk,        \* inode -> what the database in it holds
    inodes,      \* files created so far
    tls,         \* the pair server.crt and server.key belong to, the host in the marker
    pairs,       \* TLS pairs generated so far
    proc,        \* process -> its command, where it is, what it has open
    ran, wrote,  \* counters of the bounds
    kept,        \* history: rows committed and not thrown away on purpose
    meddled,     \* history: a restore or reset did not have the directory to itself
    torn         \* history: two processes, or one that died, were generating a TLS pair

fileVars == <<dbName, lockName, disk, inodes>>
tlsVars == <<tls, pairs>>
boundVars == <<ran, wrote>>
dirVars == <<fileVars, tlsVars, proc, boundVars, kept, meddled, torn>>

Empty == [sqlite |-> TRUE, schema |-> 0, rows |-> {}]
Off == [cmd |-> "none", at |-> "off", version |-> 0, host |-> NoHost, lock |-> 0, db |-> 0,
        pair |-> 0, control |-> FALSE, artefact |-> Empty, alone |-> FALSE]

\* Commands that call Store::open.  "bootstrap": create a superadmin, set a
\* password, prune the audit log; "offline": enroll, revoke, list clients.
Opens == {"serve", "bootstrap", "offline", "restore", "force"}
Up(p) == proc[p].at = "up"
Generating(p) == proc[p].at \in {"cert", "key", "marker"}
Others(p) == {q \in Procs \ {p} : proc[q].at /= "off"}

Becomes(p, next) == proc' = [proc EXCEPT ![p] = next]
Goes(p, at) == Becomes(p, [proc[p] EXCEPT !.at = at])

\* flock: held by whoever got past it on that inode.
Locked(i) == \E p \in Procs : proc[p].lock = i /\ proc[p].at \notin {"off", "flock"}

-----------------------------------------------------------------------------
(* A command starts, ends, or dies *)

Launch(p, cmd, version, host, artefact) ==
    /\ proc[p] = Off /\ ran < MaxRuns
    /\ ran' = ran + 1
    /\ proc' = [q \in Procs |->
          IF q = p
          THEN [Off EXCEPT !.cmd = cmd, !.version = version, !.host = host, !.artefact = artefact,
                           !.alone = (Others(p) = {}),
                           !.at = CASE cmd \in {"serve", "bootstrap"} -> "lock"
                                    [] cmd = "offline" -> "tls"
                                    [] OTHER -> "check"]
          ELSE [proc[q] EXCEPT !.alone = FALSE]]
    /\ UNCHANGED <<fileVars, tlsVars, wrote, kept, meddled, torn>>

\* SIGTERM and drain, the end of a command, or a crash: the kernel drops the
\* flock and every descriptor.
Ends(p) ==
    /\ proc[p].at /= "off"
    /\ torn' = (torn \/ Generating(p))
    /\ Becomes(p, Off)
    /\ UNCHANGED <<fileVars, tlsVars, boundVars, kept, meddled>>

-----------------------------------------------------------------------------
(* Store::open *)

OpenSentinel(p) ==
    /\ proc[p].cmd \in Opens /\ proc[p].at = "lock"
    /\ IF lockName = 0 THEN inodes < MaxInodes /\ inodes' = inodes + 1 /\ lockName' = inodes + 1
       ELSE UNCHANGED <<inodes, lockName>>
    /\ Becomes(p, [proc[p] EXCEPT !.at = "flock", !.lock = lockName'])
    /\ UNCHANGED <<dbName, disk, tlsVars, boundVars, kept, meddled, torn>>

\* A restore that cannot open the store takes its copy away again.
Refused(p) ==
    IF proc[p].cmd \in {"restore", "force"}
    THEN [proc[p] EXCEPT !.at = "rollback", !.lock = 0] ELSE Off

\* Slip: whoever finds the sentinel there goes on.
LockFreeAlways(i) == TRUE

\* flock(LOCK_EX | LOCK_NB)
LockFree(i) == ~Locked(i)

AcquireExclusiveLock(p) ==
    /\ proc[p].at = "flock"
    /\ Becomes(p, IF LockFree(proc[p].lock) THEN [proc[p] EXCEPT !.at = "schema"] ELSE Refused(p))
    /\ UNCHANGED <<fileVars, tlsVars, boundVars, kept, meddled, torn>>

\* serve goes on to its TLS pair, restore is done.
AfterOpen(cmd) ==
    CASE cmd = "serve" -> "tls"
      [] cmd \in {"bootstrap", "offline"} -> "up"
      [] OTHER -> "off"

TakesStore(p, i) ==
    IF AfterOpen(proc[p].cmd) = "off" THEN Off
    ELSE [proc[p] EXCEPT !.at = AfterOpen(proc[p].cmd), !.db = i]

\* The database is created when it is missing, refused when it is not SQLite
\* or newer than the binary, and migrated when it is older.
OpenDatabase(p) ==
    /\ proc[p].at = "schema"
    /\ LET i == IF dbName = 0 THEN inodes + 1 ELSE dbName
           was == IF dbName = 0 THEN Empty ELSE disk[dbName]
           opens == was.sqlite /\ was.schema <= proc[p].version
       IN  /\ i <= MaxInodes
           /\ dbName' = i
           /\ inodes' = IF dbName = 0 THEN i ELSE inodes
           /\ disk' = IF opens THEN [disk EXCEPT ![i] = [was EXCEPT !.schema = proc[p].version]]
                      ELSE disk
           /\ Becomes(p, IF opens THEN TakesStore(p, i) ELSE Refused(p))
    /\ UNCHANGED <<lockName, tlsVars, boundVars, kept, meddled, torn>>

\* A transaction of a server or an offline command.
Commits(p) ==
    /\ Up(p) /\ proc[p].db /= 0 /\ wrote < MaxCommitted
    /\ wrote' = wrote + 1
    /\ disk' = [disk EXCEPT ![proc[p].db] =
                    [disk[proc[p].db] EXCEPT !.rows = disk[proc[p].db].rows \cup {wrote + 1}]]
    /\ kept' = kept \cup {wrote + 1}
    /\ UNCHANGED <<dbName, lockName, inodes, tlsVars, proc, ran, meddled, torn>>

-----------------------------------------------------------------------------
(* ServerTlsMaterial::load_or_generate.  serve runs it after Store::open,   *)
(* offline commands before.                                                 *)

AfterTls(cmd) == IF cmd = "serve" THEN "up" ELSE "lock"

\* The TLS listener refuses a key that is not the certificate's; the server
\* then runs without its control plane.
Material(p, cert, key) ==
    [proc[p] EXCEPT !.at = AfterTls(proc[p].cmd), !.pair = cert, !.control = (cert = key)]

Loads(p) ==
    tls.cert /= 0 /\ tls.key /= 0
      /\ (proc[p].host = NoHost \/ tls.marker \in {"absent", proc[p].host})

LoadPair(p) ==
    /\ proc[p].at = "tls" /\ Loads(p)
    /\ Becomes(p, Material(p, tls.cert, tls.key))
    /\ UNCHANGED <<fileVars, tlsVars, boundVars, kept, meddled, torn>>

GeneratePair(p) ==
    /\ proc[p].at = "tls" /\ ~Loads(p)
    /\ pairs' = pairs + 1
    /\ torn' = (torn \/ \E q \in Procs : Generating(q))
    /\ Becomes(p, [proc[p] EXCEPT !.at = "cert", !.pair = pairs + 1])
    /\ UNCHANGED <<fileVars, tls, boundVars, kept, meddled>>

WriteCert(p) ==
    /\ proc[p].at = "cert"
    /\ tls' = [tls EXCEPT !.cert = proc[p].pair]
    /\ Goes(p, "key")
    /\ UNCHANGED <<fileVars, pairs, boundVars, kept, meddled, torn>>

WriteKey(p) ==
    /\ proc[p].at = "key"
    /\ tls' = [tls EXCEPT !.key = proc[p].pair]
    /\ Goes(p, "marker")
    /\ UNCHANGED <<fileVars, pairs, boundVars, kept, meddled, torn>>

WriteMarker(p) ==
    /\ proc[p].at = "marker"
    /\ tls' = [tls EXCEPT !.marker = proc[p].host]
    /\ Becomes(p, Material(p, proc[p].pair, proc[p].pair))
    /\ UNCHANGED <<fileVars, pairs, boundVars, kept, meddled, torn>>

-----------------------------------------------------------------------------
(* backup, restore, reset: none of them takes the lock *)

Meddles(p) == meddled' = (meddled \/ ~proc[p].alone)

\* Existence and signature; without --force the target must not exist.
RestoreCheck(p) ==
    /\ proc[p].at = "check" /\ proc[p].cmd \in {"restore", "force"}
    /\ Becomes(p, IF ~proc[p].artefact.sqlite \/ (proc[p].cmd = "restore" /\ dbName /= 0) THEN Off
                  ELSE [proc[p] EXCEPT !.at = IF proc[p].cmd = "force" THEN "sidecars" ELSE "copy"])
    /\ UNCHANGED <<fileVars, tlsVars, boundVars, kept, meddled, torn>>

\* --force: the sentinel goes with the sidecars, whoever holds it ...
RemoveSidecars(p) ==
    /\ proc[p].at = "sidecars"
    /\ lockName' = 0
    /\ Becomes(p, IF proc[p].cmd = "force" THEN [proc[p] EXCEPT !.at = "unlink"] ELSE Off)
    /\ Meddles(p)
    /\ UNCHANGED <<dbName, disk, inodes, tlsVars, boundVars, kept, torn>>

\* ... then the database.
RemoveTarget(p) ==
    /\ proc[p].at = "unlink"
    /\ dbName' = 0 /\ kept' = {}
    /\ Goes(p, IF proc[p].cmd = "force" THEN "copy" ELSE "sidecars")
    /\ Meddles(p)
    /\ UNCHANGED <<lockName, disk, inodes, tlsVars, boundVars, torn>>

\* fs::copy truncates and fills a file that is there by now.
CopyIn(p) ==
    /\ proc[p].at = "copy"
    /\ LET i == IF dbName = 0 THEN inodes + 1 ELSE dbName
       IN  /\ i <= MaxInodes
           /\ dbName' = i
           /\ inodes' = IF dbName = 0 THEN i ELSE inodes
           /\ disk' = [disk EXCEPT ![i] = proc[p].artefact]
    /\ kept' = kept \cup proc[p].artefact.rows
    /\ Goes(p, "lock")
    /\ Meddles(p)
    /\ UNCHANGED <<lockName, tlsVars, boundVars, torn>>

\* "Roll back the half-written destination"
Rollback(p) ==
    /\ proc[p].at = "rollback"
    /\ dbName' = 0 /\ kept' = {}
    /\ Becomes(p, Off)
    /\ Meddles(p)
    /\ UNCHANGED <<lockName, disk, inodes, tlsVars, boundVars, torn>>

\* reset: the signature of the target is checked, not whether it is in use.
ResetCheck(p) ==
    /\ proc[p].at = "check" /\ proc[p].cmd = "reset"
    /\ Becomes(p, IF dbName = 0 \/ ~disk[dbName].sqlite THEN Off ELSE [proc[p] EXCEPT !.at = "unlink"])
    /\ UNCHANGED <<fileVars, tlsVars, boundVars, kept, meddled, torn>>

-----------------------------------------------------------------------------
DirInit ==
    /\ dbName = 0 /\ lockName = 0 /\ inodes = 0
    /\ disk = [i \in 1 .. MaxInodes |-> Empty]
    /\ tls = [cert |-> 0, key |-> 0, marker |-> "absent"] /\ pairs = 0
    /\ proc = [p \in Procs |-> Off]
    /\ ran = 0 /\ wrote = 0
    /\ kept = {} /\ meddled = FALSE /\ torn = FALSE

DirStep(p) ==
    \/ OpenSentinel(p) \/ AcquireExclusiveLock(p) \/ OpenDatabase(p) \/ Commits(p)
    \/ LoadPair(p) \/ GeneratePair(p) \/ WriteCert(p) \/ WriteKey(p) \/ WriteMarker(p)
    \/ RestoreCheck(p) \/ RemoveSidecars(p) \/ RemoveTarget(p) \/ CopyIn(p) \/ Rollback(p)
    \/ ResetCheck(p)

Commanded(p) ==
    \/ \E v \in Versions, h \in Hosts \cup {NoHost} :
          "serve" \in Commands /\ Launch(p, "serve", v, h, Empty)
    \/ \E v \in Versions : \E cmd \in Commands \cap {"bootstrap", "offline"} :
          Launch(p, cmd, v, NoHost, Empty)
    \/ "reset" \in Commands /\ Launch(p, "reset", 0, NoHost, Empty)
    \/ \E v \in Versions, a \in Artefacts : \E cmd \in Commands \cap {"restore", "force"} :
          Launch(p, cmd, v, NoHost, a)

DirNext == \E p \in Procs : Commanded(p) \/ DirStep(p) \/ Ends(p)

DirSpec == DirInit /\ [][DirNext]_dirVars

-----------------------------------------------------------------------------
(* Properties *)

\* "Acquire an exclusive lock": one process at a time has the store, it is
\* the store the directory names, and its schema is the one the process was
\* built for.
OneOwner ==
    \A p \in Procs : proc[p].db /= 0 =>
        /\ proc[p].db = dbName
        /\ disk[dbName].schema = proc[p].version
        /\ \A q \in Procs : proc[q].db /= 0 => q = p

\* Every row that was committed and not thrown away is in the database the
\* next start opens, whatever died in between.
NothingLost == kept /= {} => dbName /= 0 /\ kept \subseteq disk[dbName].rows

\* A server that is up has its control plane: no boot order and no change of
\* the advertised host leaves it with half a TLS pair.
ControlServed == \A p \in Procs : Up(p) /\ proc[p].cmd = "serve" => proc[p].control

\* All of it as long as restore and reset have the directory to themselves;
\* the control plane also as long as no process dies, or generates a TLS pair
\* of its own, while another is being generated.
DirectorySound ==
    ~meddled => OneOwner /\ NothingLost /\ (~torn => ControlServed)
=============================================================================
