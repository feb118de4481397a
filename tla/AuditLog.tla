------------------------------ MODULE AuditLog ------------------------------
(***************************************************************************)
(* The audit log: entries written by many goroutines to a table, a file or *)
(* a ring in memory.  The table is kept over outages by a buffer and a     *)
(* loop that flushes it; the file is rotated by size and its backups are   *)
(* pruned; entries past their age are removed.                             *)
(*                                                                         *)
(* Entries are numbered in the order in which they are logged.  A file     *)
(* holds FileSize entries; a line of it is an entry, or 0 where a write    *)
(* was cut short and nothing parses.  A rotated file is named by its time, *)
(* here the number of the rotation.                                        *)
(***************************************************************************)
EXTENDS Integers, Sequences, FiniteSets, SequencesExt

CONSTANTS Loggers,      \* goroutines that log
          MaxEntries,   \* entries logged in all
          MaxFailures,  \* failures of the database or the disk in all
          BufferSize,   \* auditDBBufferSize
          FileSize,     \* entries to a file
          MaxBackups    \* rotated files kept

VARIABLES
    storage,    \* the backend, "off" once it is closed
    trail,      \* what is on disk: table, backups by name, rotations, active file, torn last line
    volatile,   \* what the process holds: buffer, pending, ring, handle
    store,      \* the Store call of each goroutine
    fate        \* of the entries: logged, acked, dropped with and without a word, retired

\* What the constants have to be.
AuditAssumption == BufferSize \in Nat

auditVars == <<storage, trail, volatile, store, fate>>

Idle == [at |-> "idle", entry |-> 0]
NoBackups == [name \in {} |-> <<>>]

Init ==
    /\ storage \in {"database", "file", "memory"}
    /\ trail = [table |-> {}, backups |-> NoBackups, rotations |-> 0, active |-> <<>>, torn |-> FALSE, lost |-> {}]
    /\ volatile = [buffer |-> <<>>, pending |-> <<>>, ring |-> <<>>, handle |-> "open"]
    /\ store = [g \in Loggers |-> Idle]
    /\ fate = [logged |-> 0, failures |-> 0, acked |-> {}, loud |-> {}, silent |-> {},
               retired |-> {}, died |-> {}]

Entries(s) == Range(s) \ {0}
InFiles(files) == UNION {Entries(files[name]) : name \in DOMAIN files}
OnDisk == trail.table \cup Entries(trail.active) \cup InFiles(trail.backups)
Newest(s, n) == IF Len(s) <= n THEN s ELSE SubSeq(s, Len(s) - n + 1, Len(s))
Dropped(s, n) == Entries(s) \ Entries(Newest(s, n))

\* An event of a configured kind is stored; generateAuditID numbers it.
Log(g) ==
    /\ store[g] = Idle /\ fate.logged < MaxEntries
    /\ fate' = [fate EXCEPT !.logged = @ + 1]
    /\ store' = [store EXCEPT ![g] = [at |-> "store", entry |-> fate.logged + 1]]
    /\ UNCHANGED <<storage, trail, volatile>>

CanFail == fate.failures < MaxFailures
Done(g) == store' = [store EXCEPT ![g] = Idle]

-----------------------------------------------------------------------------
(* The table *)

insertOne(g) ==
    /\ storage = "database" /\ store[g].at = "store"
    /\ trail' = [trail EXCEPT !.table = @ \cup {store[g].entry}]
    /\ fate' = [fate EXCEPT !.acked = @ \cup {store[g].entry}]
    /\ Done(g)
    /\ UNCHANGED <<storage, volatile>>

\* The row may be there although its insert failed.
InsertFails(g) ==
    /\ storage = "database" /\ store[g].at = "store" /\ CanFail
    /\ \E rows \in SUBSET {store[g].entry} : trail' = [trail EXCEPT !.table = @ \cup rows]
    /\ fate' = [fate EXCEPT !.failures = @ + 1]
    /\ store' = [store EXCEPT ![g].at = "buffer"]
    /\ UNCHANGED <<storage, volatile>>

\* The oldest entries over the limit are dropped, and logged.
bufferEntry(g) ==
    LET all == Append(volatile.buffer, store[g].entry)
    IN  /\ storage = "database" /\ store[g].at = "buffer"
        /\ volatile' = [volatile EXCEPT !.buffer = Newest(all, BufferSize)]
        /\ fate' = [fate EXCEPT !.loud = @ \cup Dropped(all, BufferSize)]
        /\ Done(g)
        /\ UNCHANGED <<storage, trail>>

\* flushBuffer takes the whole buffer, and inserts without the lock.
flushBuffer ==
    /\ storage = "database" /\ volatile.pending = <<>> /\ volatile.buffer # <<>>
    /\ volatile' = [volatile EXCEPT !.pending = volatile.buffer, !.buffer = <<>>]
    /\ UNCHANGED <<storage, trail, store, fate>>

flushInserts ==
    /\ volatile.pending # <<>>
    /\ trail' = [trail EXCEPT !.table = @ \cup {Head(volatile.pending)}]
    /\ volatile' = [volatile EXCEPT !.pending = Tail(@)]
    /\ UNCHANGED <<storage, store, fate>>

MutflushFails ==
    /\ volatile.pending # <<>> /\ CanFail
    /\ volatile' = [volatile EXCEPT !.pending = <<>>]
    /\ fate' = [fate EXCEPT !.failures = @ + 1]
    /\ UNCHANGED <<storage, trail, store>>

\* The rest goes ahead of what was buffered meanwhile; the limit is kept
\* without a word.
flushFails ==
    LET all == volatile.pending \o volatile.buffer
    IN  /\ volatile.pending # <<>> /\ CanFail
        /\ volatile' = [volatile EXCEPT !.pending = <<>>, !.buffer = Newest(all, BufferSize)]
        /\ fate' = [fate EXCEPT !.failures = @ + 1, !.silent = @ \cup Dropped(all, BufferSize)]
        /\ UNCHANGED <<storage, trail, store>>

-----------------------------------------------------------------------------
(* The file *)

\* pruneBackups: the oldest are removed, so that MaxBackups are left.
Later(backups, name) == {n \in DOMAIN backups : n > name}
Pruned(backups) ==
    Restrict(backups, {name \in DOMAIN backups : Cardinality(Later(backups, name)) < MaxBackups})
PrunedEntries(backups) == InFiles(backups) \ InFiles(Pruned(backups))

NeedsRotation == Len(trail.active) >= FileSize

\* The active file is renamed.
Rotated ==
    [name \in DOMAIN trail.backups \cup {trail.rotations} |->
        IF name = trail.rotations THEN trail.active ELSE trail.backups[name]]

\* A line behind one that was cut short is no line of its own.
Written(active, entry) ==
    [active |-> Append(active, IF trail.torn THEN 0 ELSE entry),
     lost |-> IF trail.torn THEN trail.lost \cup {entry} ELSE trail.lost]

\* The line is written, flushed and synced, in a fresh file if need be.
StoreFile(g) ==
    LET e == store[g].entry
        kept == IF NeedsRotation THEN Pruned(Rotated) ELSE trail.backups
        fresh == IF NeedsRotation THEN <<>> ELSE trail.active
        w == IF NeedsRotation THEN [active |-> <<e>>, lost |-> trail.lost] ELSE Written(fresh, e)
    IN  /\ storage = "file" /\ store[g].at = "store" /\ volatile.handle = "open"
        /\ trail' = [trail EXCEPT !.backups = kept, !.active = w.active, !.lost = w.lost, !.torn = FALSE,
                                  !.rotations = IF NeedsRotation THEN @ + 1 ELSE @]
        /\ fate' = [fate EXCEPT !.acked = @ \cup {e},
                                !.retired = @ \cup (IF NeedsRotation THEN PrunedEntries(Rotated) ELSE {})]
        /\ Done(g)
        /\ UNCHANGED <<storage, volatile>>

\* rotate fails behind the Close: before the rename, or behind it with the
\* backups pruned or not.  The next call closes a closed file, and so on.
RotateFails(g) ==
    /\ storage = "file" /\ store[g].at = "store" /\ volatile.handle = "open" /\ NeedsRotation /\ CanFail
    /\ \E renamed, pruned \in BOOLEAN :
           /\ pruned => renamed
           /\ trail' = [trail EXCEPT
                  !.backups = IF pruned THEN Pruned(Rotated) ELSE IF renamed THEN Rotated ELSE @,
                  !.rotations = IF renamed THEN @ + 1 ELSE @,
                  !.active = IF renamed THEN <<>> ELSE @,
                  !.torn = ~renamed /\ @]
           /\ fate' = [fate EXCEPT !.failures = @ + 1, !.loud = @ \cup {store[g].entry},
                  !.retired = @ \cup (IF pruned THEN PrunedEntries(Rotated) ELSE {})]
    /\ volatile' = [volatile EXCEPT !.handle = "failed"]
    /\ Done(g)
    /\ UNCHANGED storage

\* A write that is cut short; bufio keeps its error.  A failed sync leaves the
\* line where it is.
WriteFails(g) ==
    /\ storage = "file" /\ store[g].at = "store" /\ volatile.handle = "open" /\ ~NeedsRotation /\ CanFail
    /\ fate' = [fate EXCEPT !.failures = @ + 1, !.loud = @ \cup {store[g].entry}]
    /\ \/ /\ trail' = [trail EXCEPT !.torn = TRUE]
          /\ volatile' = [volatile EXCEPT !.handle = "failed"]
       \/ /\ trail' = [trail EXCEPT !.active = Written(@, store[g].entry).active, !.torn = FALSE]
          /\ UNCHANGED volatile
    /\ Done(g)
    /\ UNCHANGED storage

\* Every Store after that returns an error.
StoreRefused(g) ==
    /\ storage = "file" /\ store[g].at = "store" /\ volatile.handle = "failed"
    /\ fate' = [fate EXCEPT !.loud = @ \cup {store[g].entry}]
    /\ Done(g)
    /\ UNCHANGED <<storage, trail, volatile>>

-----------------------------------------------------------------------------
(* The ring, retention, and the life of the process *)

StoreMemory(g) ==
    LET all == Append(volatile.ring, store[g].entry)
    IN  /\ storage = "memory" /\ store[g].at = "store"
        /\ volatile' = [volatile EXCEPT !.ring = Newest(all, BufferSize)]
        /\ fate' = [fate EXCEPT !.retired = @ \cup Dropped(all, BufferSize)]
        /\ Done(g)
        /\ UNCHANGED <<storage, trail>>

MutAged(backup, cutoff) == \E e \in Entries(backup) : e < cutoff

\* The newest entry of a backup is older than the cutoff.
Aged(backup, cutoff) == Entries(backup) # {} /\ \A e \in Entries(backup) : e < cutoff

\* cleanupOldEntries: rows and entries of the ring one by one, backups whole,
\* the active file never.
Cleanup ==
    \E cutoff \in 2..fate.logged :
        LET old == {name \in DOMAIN trail.backups : Aged(trail.backups[name], cutoff)}
        IN  /\ storage # "off"
            /\ trail' = [trail EXCEPT !.table = {e \in @ : e >= cutoff},
                                      !.backups = Restrict(@, DOMAIN @ \ old)]
            /\ volatile' = [volatile EXCEPT !.ring = SelectSeq(@, LAMBDA e : e >= cutoff)]
            /\ fate' = [fate EXCEPT !.retired = @ \cup {e \in trail.table : e < cutoff}
                            \cup {e \in Entries(volatile.ring) : e < cutoff}
                            \cup {e \in InFiles(Restrict(trail.backups, old)) : e < cutoff}]
            /\ UNCHANGED <<storage, store>>

\* Close flushes once more, and what that leaves in the buffer is gone.
Shutdown ==
    /\ storage \in {"database", "file"} /\ volatile.pending = <<>>
    /\ volatile.buffer # <<>> => CanFail
    /\ storage' = "off"
    /\ UNCHANGED <<trail, volatile, store, fate>>

\* The table and the file are closed: the Store of an entry returns an error.
StoreAfterClose(g) ==
    /\ storage = "off" /\ store[g] # Idle
    /\ fate' = [fate EXCEPT !.loud = @ \cup {store[g].entry}]
    /\ Done(g)
    /\ UNCHANGED <<storage, trail, volatile>>

\* The process dies, in the middle of a line maybe, and a new one opens the
\* same file or table.
Crash ==
    /\ storage \in {"database", "file"} /\ CanFail
    /\ \E cut \in BOOLEAN :
           /\ cut => storage = "file" /\ volatile.handle = "open" /\ ~NeedsRotation
                     /\ \E g \in Loggers : store[g].at = "store"
           /\ trail' = [trail EXCEPT !.torn = @ \/ cut]
    /\ volatile' = [buffer |-> <<>>, pending |-> <<>>, ring |-> <<>>, handle |-> "open"]
    /\ store' = [g \in Loggers |-> Idle]
    /\ fate' = [fate EXCEPT !.failures = @ + 1,
                            !.died = @ \cup Entries(volatile.buffer) \cup Entries(volatile.pending)]
    /\ UNCHANGED storage

Next ==
    \/ \E g \in Loggers : \/ Log(g) \/ insertOne(g) \/ InsertFails(g) \/ bufferEntry(g)
                          \/ StoreFile(g) \/ RotateFails(g) \/ WriteFails(g) \/ StoreRefused(g)
                          \/ StoreMemory(g) \/ StoreAfterClose(g)
    \/ flushBuffer \/ flushInserts \/ flushFails
    \/ Cleanup \/ Shutdown \/ Crash

-----------------------------------------------------------------------------
\* An entry whose Store returned nil is found until its retention ends, over
\* rotations, clean-ups, crashes and failed rotations; one that was written
\* behind a torn line is the exception.
AcknowledgedIsKept == fate.acked \subseteq OnDisk \cup fate.retired \cup trail.lost

\* A buffered entry reaches the table once the database is back, unless it was
\* dropped for the limit or the process died.
BacklogDrains ==
    \A e \in 1..MaxEntries :
        (e \in Entries(volatile.buffer) \cup Entries(volatile.pending))
            ~> (e \in trail.table \cup fate.retired \cup fate.loud \cup fate.silent \cup fate.died \/ storage = "off")

\* What is on disk, and what an acknowledgement rests on: a rotated file has a
\* name of its own, and an entry that is stored has a number.
Files == UNION {[names -> Seq(Nat)] : names \in SUBSET Nat}
Trail == [table : SUBSET Nat, backups : Files, rotations : Nat, active : Seq(Nat),
          torn : BOOLEAN, lost : SUBSET Nat]
AuditInv ==
    /\ trail \in Trail
    /\ \A name \in DOMAIN trail.backups : name < trail.rotations
    /\ store \in [Loggers -> [at : {"idle", "store", "buffer"}, entry : Nat]]
    /\ \A g \in Loggers : store[g].at # "idle" => store[g].entry > 0
    /\ DOMAIN fate = {"logged", "failures", "acked", "loud", "silent", "retired", "died"}
    /\ fate.logged \in Nat
    /\ DOMAIN volatile = {"buffer", "pending", "ring", "handle"}
    /\ volatile.buffer \in Seq(Nat) /\ volatile.pending \in Seq(Nat)
    /\ AcknowledgedIsKept
============================================================================
