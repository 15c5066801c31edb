----------------------------- MODULE BinaryCache -----------------------------
(***************************************************************************)
(* The worker's binary cache (src/unnamed/part_007, BinaryCache).  Every   *)
(* GetBinary holds the cache mutex from lookup to return, download and     *)
(* eviction included, so it is one atomic step.  Each executeJob goroutine *)
(* (a Caller) obtains a path and later starts the binary with the runner,  *)
(* outside the mutex: other callers' GetBinary steps can run in between.   *)
(*                                                                         *)
(* The cache directory holds <digest> files and, while a download runs,    *)
(* <digest>.tmp files; loadEntries indexes both kinds by file name.  The   *)
(* in-memory index (c.entries) and the directory drift apart: failed       *)
(* os.Stat and os.Remove calls, a crash during a download, and files       *)
(* changed from outside.  Only the order of times matters (the LRU sort,   *)
(* and loadEntries taking lastAccess from the mtime), so entry lastAccess  *)
(* and file mtime values are kept as ranks 1..n over both, 0 for none.    *)
(***************************************************************************)
EXTENDS Naturals, FiniteSets, FiniteSetsExt

CONSTANTS
    Digests,      \* the expected SHA-256 values jobs ask for
    Callers,      \* concurrent executeJob goroutines of one worker
    Size,         \* Size[d]: size of the binary with digest d, in MB
    MaxSizeMB,    \* --max-cache-size
    MaxRestarts,  \* bound on worker restarts
    MaxTampers,   \* bound on cached files changed or removed from outside
    MaxIOErrors   \* bound on failed os.Stat and os.Remove calls

\* cachePath and tempPath of GetBinary: <cacheDir>/<digest>[.tmp].
Bin(d) == <<d, "bin">>
Tmp(d) == <<d, "tmp">>
Keys == {Bin(d) : d \in Digests} \cup {Tmp(d) : d \in Digests}

\* The "" path GetBinary returns with an error.
NoPath == <<>>

VARIABLES
    index,       \* keys of c.entries
    lastAccess,  \* entry.lastAccess per key, 0 off the index
    esize,       \* entry.size per key, 0 off the index
    files,       \* the files in the cache directory
    mtime,       \* their modification times, 0 for no file
    fsize,       \* their sizes in MB, 0 for no file
    intact,      \* <digest> files whose contents hash to their name
    pc,          \* pc[c]: "idle" or "got" (holds a path, runner not started)
    path,        \* path[c]: the file GetBinary returned to c
    restarts,
    tampers,
    ioErrors

vars == <<index, lastAccess, esize, files, mtime, fsize, intact, pc, path,
          restarts, tampers, ioErrors>>

\* f restricted to the keys S, 0 elsewhere.
OnlyOn(f, S) == [k \in Keys |-> IF k \in S THEN f[k] ELSE 0]

\* time.Now(): later than every recorded time.
Later == 1 + Max({lastAccess[k] : k \in Keys} \cup {mtime[k] : k \in Keys})

Ranked(f, V) ==
    [k \in Keys |-> IF f[k] = 0 THEN 0 ELSE Cardinality({v \in V : v <= f[k]})]

\* The new entry times la and file times mt, kept as ranks.
SetTimes(la, mt) ==
    LET V == ({la[k] : k \in Keys} \cup {mt[k] : k \in Keys}) \ {0}
    IN  /\ lastAccess' = Ranked(la, V)
        /\ mtime' = Ranked(mt, V)

\* The sum of entry sizes that evictIfNeeded computes.
Total(S, sz) == MapThenSumSet(LAMBDA k : sz[k], S)

Init ==
    /\ index = {}
    /\ lastAccess = [k \in Keys |-> 0]
    /\ esize = [k \in Keys |-> 0]
    /\ files = {}
    /\ mtime = [k \in Keys |-> 0]
    /\ fsize = [k \in Keys |-> 0]
    /\ intact = {}
    /\ pc = [c \in Callers |-> "idle"]
    /\ path = [c \in Callers |-> NoPath]
    /\ restarts = 0
    /\ tampers = 0
    /\ ioErrors = 0

-----------------------------------------------------------------------------
(* evictIfNeeded: sort entries by lastAccess, oldest first, and remove     *)
(* them while the total exceeds the budget.  Result: the entries kept.     *)

\* The oldest entry of a non-empty S.
Oldest(S, la) == CHOOSE x \in S : \A y \in S : la[x] <= la[y]

\* Variant: the loop stops after one eviction.
EvictOnce(S, la, sz) ==
    IF S = {} \/ Total(S, sz) <= MaxSizeMB THEN S ELSE S \ {Oldest(S, la)}

\* Variant: entries are removed while the total is not below the budget.
RECURSIVE EvictBelowStrict(_, _, _)
EvictBelowStrict(S, la, sz) ==
    IF S = {} \/ Total(S, sz) < MaxSizeMB THEN S
    ELSE EvictBelowStrict(S \ {Oldest(S, la)}, la, sz)

RECURSIVE Evict(_, _, _)
Evict(S, la, sz) ==
    IF S = {} \/ Total(S, sz) <= MaxSizeMB THEN S
    ELSE Evict(S \ {Oldest(S, la)}, la, sz)

\* Reference: LRU keeps the largest set of most recently used entries that
\* fits the budget.
KeptByLRU(S, la, sz) ==
    LET suffixes == {{x \in S : la[x] >= la[y]} : y \in S} \cup {{}}
        fits == {R \in suffixes : Total(R, sz) <= MaxSizeMB}
    IN  CHOOSE R \in fits : \A R2 \in fits : Cardinality(R2) <= Cardinality(R)

-----------------------------------------------------------------------------
(* GetBinary.                                                              *)

\* Cache hit: the entry exists and verifySHA256 accepts the file; the
\* entry's lastAccess and the file's mtime are bumped and the path returned.
CacheHit(c, d) ==
    /\ Bin(d) \in index \cap intact
    /\ SetTimes([lastAccess EXCEPT ![Bin(d)] = Later],
                [mtime EXCEPT ![Bin(d)] = Later])
    /\ pc' = [pc EXCEPT ![c] = "got"]
    /\ path' = [path EXCEPT ![c] = Bin(d)]
    /\ UNCHANGED <<index, esize, files, fsize, intact, ioErrors>>

\* Miss (or a cached file that failed verification: its entry is deleted
\* and the file removed).  The download either fails, or the verified file
\* is renamed into place.  Then os.Stat may fail: the error is returned and
\* the file stays with no entry.  Otherwise the entry is inserted and
\* evictIfNeeded run, whose failed os.Remove calls leave files behind
\* (their entries are deleted all the same); cachePath is returned even
\* if the eviction removed it.
CacheMiss(c, d) ==
    /\ Bin(d) \notin index \cap intact
    /\ LET idx0   == index \ {Bin(d)}
           files0 == IF Bin(d) \in index THEN files \ {Bin(d)} ELSE files
           now    == Later
           files1 == (files0 \ {Tmp(d)}) \cup {Bin(d)}
           fsz1   == [fsize EXCEPT ![Bin(d)] = Size[d]]
           mt1    == [mtime EXCEPT ![Bin(d)] = now]
           idx1   == idx0 \cup {Bin(d)}
           la1    == [lastAccess EXCEPT ![Bin(d)] = now]
           es1    == [esize EXCEPT ![Bin(d)] = Size[d]]
           kept   == Evict(idx1, la1, es1)
       IN  \/ LET files2 == files0 \ {Tmp(d)}
              IN  /\ index' = idx0
                  /\ files' = files2
                  /\ intact' = intact \cap files2
                  /\ esize' = OnlyOn(esize, idx0)
                  /\ fsize' = OnlyOn(fsize, files2)
                  /\ SetTimes(OnlyOn(lastAccess, idx0), OnlyOn(mtime, files2))
                  /\ UNCHANGED <<pc, path, ioErrors>>
           \/ /\ ioErrors < MaxIOErrors
              /\ ioErrors' = ioErrors + 1
              /\ index' = idx0
              /\ files' = files1
              /\ intact' = (intact \cap files1) \cup {Bin(d)}
              /\ esize' = OnlyOn(esize, idx0)
              /\ fsize' = OnlyOn(fsz1, files1)
              /\ SetTimes(OnlyOn(lastAccess, idx0), OnlyOn(mt1, files1))
              /\ UNCHANGED <<pc, path>>
           \/ \E stay \in SUBSET ((idx1 \ kept) \cap files1) :
                 /\ stay = {} \/ ioErrors < MaxIOErrors
                 /\ ioErrors' = IF stay = {} THEN ioErrors ELSE ioErrors + 1
                 /\ index' = kept
                 /\ files' = files1 \ ((idx1 \ kept) \ stay)
                 /\ intact' = (intact \cup {Bin(d)}) \cap files'
                 /\ esize' = OnlyOn(es1, kept)
                 /\ fsize' = OnlyOn(fsz1, files')
                 /\ SetTimes(OnlyOn(la1, kept), OnlyOn(mt1, files'))
                 /\ pc' = [pc EXCEPT ![c] = "got"]
                 /\ path' = [path EXCEPT ![c] = Bin(d)]

GetBinary(c, d) ==
    /\ pc[c] = "idle"
    /\ CacheHit(c, d) \/ CacheMiss(c, d)
    /\ UNCHANGED <<restarts, tampers>>

\* executeJob hands the path to runner.Execute; the goroutine then ends
\* (a missing file makes the start fail with exit code -1).
StartBinary(c) ==
    /\ pc[c] = "got"
    /\ pc' = [pc EXCEPT ![c] = "idle"]
    /\ path' = [path EXCEPT ![c] = NoPath]
    /\ UNCHANGED <<index, lastAccess, esize, files, mtime, fsize, intact,
                   restarts, tampers, ioErrors>>

-----------------------------------------------------------------------------
(* Environment.                                                            *)

\* A cached file is deleted, or rewritten with other contents and size,
\* from outside the cache, for instance by the job that runs it, which
\* has the worker's permissions.  The in-memory entry keeps its size.
Tamper(d) ==
    /\ Bin(d) \in intact
    /\ tampers < MaxTampers
    /\ tampers' = tampers + 1
    /\ intact' = intact \ {Bin(d)}
    /\ \/ /\ files' = files \ {Bin(d)}
          /\ fsize' = [fsize EXCEPT ![Bin(d)] = 0]
          /\ SetTimes(lastAccess, [mtime EXCEPT ![Bin(d)] = 0])
       \/ /\ UNCHANGED files
          /\ \E s \in 1..MaxSizeMB : fsize' = [fsize EXCEPT ![Bin(d)] = s]
          /\ SetTimes(lastAccess, [mtime EXCEPT ![Bin(d)] = Later])
    /\ UNCHANGED <<index, esize, pc, path, restarts, ioErrors>>

\* A download in progress when the process dies leaves <digest>.tmp with
\* part of the binary.
Leftovers ==
    UNION {{[key |-> Tmp(d), size |-> s] : s \in 1..Size[d]} : d \in Digests}

\* The worker restarts, possibly in the middle of a download.
\* NewBinaryCache runs loadEntries, which indexes every file in the cache
\* directory under its name, with its size and its mtime as lastAccess,
\* and does not evict.
Restart ==
    /\ restarts < MaxRestarts
    /\ restarts' = restarts + 1
    /\ \/ /\ UNCHANGED <<files, fsize>>
          /\ index' = files
          /\ esize' = fsize
          /\ SetTimes(mtime, mtime)
       \/ \E l \in Leftovers :
             LET mt == [mtime EXCEPT ![l.key] = Later]
             IN  /\ files' = files \cup {l.key}
                 /\ fsize' = [fsize EXCEPT ![l.key] = l.size]
                 /\ index' = files'
                 /\ esize' = fsize'
                 /\ SetTimes(mt, mt)
    /\ pc' = [c \in Callers |-> "idle"]
    /\ path' = [c \in Callers |-> NoPath]
    /\ UNCHANGED <<intact, tampers, ioErrors>>

Next ==
    \/ \E c \in Callers, d \in Digests : GetBinary(c, d)
    \/ \E c \in Callers : StartBinary(c)
    \/ \E d \in Digests : Tamper(d)
    \/ Restart

Spec == Init /\ [][Next]_vars

-----------------------------------------------------------------------------
(* Properties.                                                             *)

\* evictIfNeeded implements LRU: after every insertion the entries kept
\* are exactly the most recently used ones that fit, as the reference
\* KeptByLRU defines it, with the .tmp and orphaned entries loadEntries
\* made after a restart and the stale sizes of rewritten files.
LRUEviction ==
    [][\A c \in Callers :
          LET k == path'[c] IN
          (pc[c] = "idle" /\ pc'[c] = "got" /\ k \notin index \cap intact)
              => index' = KeptByLRU(index \cup {k},
                                    [lastAccess EXCEPT ![k] = Later],
                                    [esize EXCEPT ![k] = Size[k[1]]])
      ]_vars

\* The file GetBinary returned to an executeJob goroutine still exists,
\* with its contents, when the runner starts it.
BinaryPresentAtStart ==
    \A c \in Callers : pc[c] = "got" => path[c] \in intact

=============================================================================
