------------------------------ MODULE Enrichment ------------------------------
(***************************************************************************)
(* The lookups that label the responders of a trace with a host name, a    *)
(* network, a place or an exchange.  Four workers of the same shape take a *)
(* batch of unlabelled addresses, look them up at the same time through a  *)
(* cache, and write what they got to every session.  The exchange lookup   *)
(* matches prefixes of a table that is loaded once, from a file or the     *)
(* PeeringDB API, and replaced when the user asks for a refresh.           *)
(*                                                                         *)
(* An address is a sequence of bits, of one width per family.  The clock   *)
(* only makes cache entries, the file and the failure backoff expire.      *)
(***************************************************************************)
EXTENDS Lifecycle

CONSTANTS
    Bits,       \* the bits of an address
    Cap,        \* ENRICHMENT_CACHE_CAP
    MapOrder,   \* the place of an address in the iteration of the hash map
    Batch       \* MAX_CONCURRENT_LOOKUPS, of each kind

\* A listed prefix is of at most all the bits of its family's addresses.
Listed(e) ==
    /\ e.bits \in Seq({0, 1}) /\ e.len \in 0..Len(e.bits) /\ e.info # None
    /\ \A addr \in DOMAIN Bits : Family(addr) = e.fam => Len(Bits[addr]) = Len(e.bits)

ASSUME TablesAssumption ==
    /\ Cap \in Nat
    /\ \A addr \in DOMAIN Bits : Bits[addr] \in Seq({0, 1})
    /\ \A p \in Profiles :
        p.published \in Seq(ToSet(p.published)) /\ \A e \in ToSet(p.published) : Listed(e)

VARIABLES
    cache,      \* of each worker, oldest entry first
    lookups,    \* the lookups of the batches being looked up
    ix,         \* the exchange table, and the state of its loading
    faults      \* lookups that may still fail, a bound

enrichVars == <<cache, lookups, ix, faults>>
-----------------------------------------------------------------------------
(* The prefix tries.  A node is named by the bits on the way to it, and has  *)
(* an info if a prefix ends there; a trie gives the info of its nodes.       *)

Root == [node \in {<<>>} |-> None]

\* Nodes are made along the bits of the prefix alone, so host bits are ignored;
\* the first of two entries for the same prefix stays.
InsertPrefix(trie, bits, len, info) ==
    LET way  == {SubSeq(bits, 1, i) : i \in 0..len}
        last == SubSeq(bits, 1, len)
    IN  [node \in DOMAIN trie \cup way |->
            IF node \in DOMAIN trie /\ (trie[node] # None \/ node # last) THEN trie[node]
            ELSE IF node = last THEN info ELSE None]

\* How far the walk along the bits comes before there is no child, and the
\* infos it passes, by depth.
WalkDepth(trie, bits) ==
    CHOOSE i \in 0..Len(bits) :
        /\ \A j \in 0..i : SubSeq(bits, 1, j) \in DOMAIN trie
        /\ i < Len(bits) => SubSeq(bits, 1, i + 1) \notin DOMAIN trie
InfosPassed(trie, bits) == {i \in 0..WalkDepth(trie, bits) : trie[SubSeq(bits, 1, i)] # None}

\* The last info on the way is the best.  Mutant: the first one is.
FirstInfo(infos) == CHOOSE i \in infos : \A j \in infos : i <= j
LastInfo(infos) == CHOOSE i \in infos : \A j \in infos : j <= i

LookupPrefix(trie, bits) ==
    LET infos == InfosPassed(trie, bits)
    IN  IF infos = {} THEN None ELSE trie[SubSeq(bits, 1, LastInfo(infos))]

\* The table of a list of entries [fam, bits, len, info], in the file's order.
Table(entries) ==
    [fam \in Families |->
        FoldLeft(LAMBDA trie, e : IF e.fam = fam THEN InsertPrefix(trie, e.bits, e.len, e.info) ELSE trie,
                 Root, entries)]

ExchangeOf(table, addr) == LookupPrefix(table[Family(addr)], Bits[addr])
-----------------------------------------------------------------------------
EnrichInit ==
    /\ cache = [k \in profile.workers |-> <<>>]
    /\ lookups = {}
    /\ ix = [table |-> Table(<<>>), loaded |-> FALSE, loading |-> FALSE, backoff |-> FALSE,
             file |-> profile.file, refresh |-> "none", fetched |-> <<>>]
    /\ faults = profile.lookupFaults

\* Where a hop of a session comes as a worker iterates over the sessions.
Place(ip, ttl) == MapOrder[ip] * (MaxSafeTtl + 1) + ttl

\* A batch has room for another address.  Mutant: it is full one too early.
RoomForFewer(n) == n + 1 < Batch
RoomAfter(n) == n < Batch

\* The hops whose responder has no label yet, and the first so many responders.
Unlabelled(k) ==
    UNION {{<<ip, ttl>> : ttl \in {t \in sessions[ip].seen :
                \A l \in sessions[ip].labels : l[1] # k \/ l[2] # profile.path[ip][t]}} : ip \in DOMAIN sessions}
FirstSeen(k) ==
    LET hops  == Unlabelled(k)
        addrs == {profile.path[h[1]][h[2]] : h \in hops}
        First(a) == CHOOSE n \in {Place(h[1], h[2]) : h \in hops} :
                        /\ \E h \in hops : Place(h[1], h[2]) = n /\ profile.path[h[1]][h[2]] = a
                        /\ \A h \in hops : profile.path[h[1]][h[2]] = a => n <= Place(h[1], h[2])
    IN  {a \in addrs : RoomAfter(Cardinality({b \in addrs : First(b) < First(a)}))}

EnrichUnchanged == UNCHANGED <<profile, mainVars, pending, engine, receiver, mgrVars, emitted>>

\* The tick of a worker.
StartBatch(k) ==
    /\ k # "ratelimit" /\ worker[k] = "idle" /\ Running
    /\ Unlabelled(k) # {}
    /\ worker' = [worker EXCEPT ![k] = "busy"]
    /\ lookups' = lookups \cup {[kind |-> k, addr |-> a, pc |-> "check", result |-> None] : a \in FirstSeen(k)}
    /\ EnrichUnchanged /\ UNCHANGED <<sessions, cache, ix, faults>>

\* All have returned: the results go to the responders still there.
FinishBatch(k) ==
    /\ worker[k] = "busy" /\ Running
    /\ LET mine == {l \in lookups : l.kind = k}
           labels(ip) == {<<k, l.addr, l.result>> : l \in {m \in mine : m.result # None /\
                            \E ttl \in sessions[ip].seen : profile.path[ip][ttl] = m.addr}}
       IN  /\ \A l \in mine : l.pc = "done"
           /\ lookups' = lookups \ mine
           /\ sessions' = [ip \in DOMAIN sessions |->
                IF \A l \in mine : l.result = None THEN sessions[ip]
                ELSE Written([sessions[ip] EXCEPT !.labels =
                        {old \in @ : ~\E new \in labels(ip) : old[2] = new[2] /\ old[1] = new[1]} \cup labels(ip)])]
    /\ worker' = [worker EXCEPT ![k] = "idle"]
    /\ EnrichUnchanged /\ UNCHANGED <<cache, ix, faults>>
-----------------------------------------------------------------------------
(* One lookup. *)

Become(l, m) == lookups' = (lookups \ {l}) \cup {m}
Entries(k, a) == SelectSeq(cache[k], LAMBDA e : e.addr = a)

\* An entry answers until it is as old as the cache keeps it.  Mutant: it
\* answers for ever.
StaleNever(e) == FALSE
Stale(e) == e.expired
Live(entries) == FoldLeft(LAMBDA kept, e : IF Stale(e) THEN kept ELSE Append(kept, e), <<>>, entries)

Check(l) ==
    /\ l.pc = "check" /\ Running
    /\ LET known == Live(Entries(l.kind, l.addr))
       IN  IF known # <<>> THEN Become(l, [l EXCEPT !.pc = "done", !.result = known[1].result])
           ELSE Become(l, [l EXCEPT !.pc = IF l.kind = "ix" THEN "load" ELSE "ask"])
    /\ UNCHANGED <<lifecycleVars, cache, ix, faults>>

\* Names, networks and places: a lookup that fails finds nothing.
Ask(l) ==
    /\ l.pc = "ask" /\ l.kind # "ix" /\ Running
    /\ \/ Become(l, [l EXCEPT !.pc = "keep", !.result = profile.answers[l.addr]]) /\ UNCHANGED faults
       \/ faults > 0 /\ faults' = faults - 1 /\ Become(l, [l EXCEPT !.pc = "keep"])
    /\ UNCHANGED <<lifecycleVars, cache, ix>>

Match(l) ==
    /\ l.pc = "ask" /\ l.kind = "ix" /\ Running
    /\ Become(l, [l EXCEPT !.pc = "keep", !.result = ExchangeOf(ix.table, l.addr)])
    /\ UNCHANGED <<lifecycleVars, cache, ix, faults>>

\* prune_cache: what has expired, and then the oldest above the cap.  Mutant:
\* only what has expired.
PrunedOfStale(entries) == Live(entries)
Pruned(entries) ==
    LET kept == Live(entries)
    IN  IF Len(kept) > Cap THEN SubSeq(kept, Len(kept) - Cap + 1, Len(kept)) ELSE kept

\* A result takes the place of an older one for its address.
Others(entries, a) ==
    FoldLeft(LAMBDA kept, e : IF e.addr = a THEN kept ELSE Append(kept, e), <<>>, entries)
Keep(l) ==
    /\ l.pc = "keep" /\ Running
    /\ LET entry == [addr |-> l.addr, result |-> l.result, expired |-> FALSE]
       IN  cache' = [cache EXCEPT ![l.kind] = Pruned(Append(Others(@, l.addr), entry))]
    /\ Become(l, [l EXCEPT !.pc = "done"])
    /\ UNCHANGED <<lifecycleVars, ix, faults>>

\* An hour passes: the oldest entry that is fresh grows stale.
Age(k) ==
    /\ Running
    /\ \E i \in 1..Len(cache[k]) :
        /\ ~cache[k][i].expired
        /\ \A j \in 1..(i - 1) : cache[k][j].expired
        /\ cache' = [cache EXCEPT ![k][i].expired = TRUE]
    /\ UNCHANGED <<lifecycleVars, lookups, ix, faults>>
-----------------------------------------------------------------------------
(* Loading the exchange table, once, by whichever lookup comes first. *)

\* Within the backoff of a failure nothing is found, and nothing is cached.
Load(l) ==
    /\ l.pc = "load" /\ Running
    /\ Become(l, IF ix.loaded THEN [l EXCEPT !.pc = "ask"]
                 ELSE IF ix.backoff THEN [l EXCEPT !.pc = "done"] ELSE [l EXCEPT !.pc = "wait"])
    /\ UNCHANGED <<lifecycleVars, cache, ix, faults>>

\* The cell is tried by one lookup at a time; one that waited tries in turn,
\* without asking for the backoff again.
Enter(l) ==
    /\ l.pc = "wait" /\ ~ix.loading /\ Running
    /\ IF ix.loaded THEN Become(l, [l EXCEPT !.pc = "ask"]) /\ UNCHANGED ix
       ELSE Become(l, [l EXCEPT !.pc = "fetch"]) /\ ix' = [ix EXCEPT !.loading = TRUE]
    /\ UNCHANGED <<lifecycleVars, cache, faults>>

\* The API: its answer, or a failure.
Api == {[ok |-> TRUE, left |-> faults]} \cup IF faults > 0 THEN {[ok |-> FALSE, left |-> faults - 1]} ELSE {}

\* A file that is not too old; else the API, whose answer is saved; else the
\* file, however old.
FileFresh == ix.file # None /\ ~ix.file.old
LoadData(l) ==
    /\ l.pc = "fetch" /\ Running
    /\ LET loaded(entries) == [ix EXCEPT !.loading = FALSE, !.loaded = TRUE, !.table = Table(entries)]
       IN  \/ /\ FileFresh
              /\ ix' = loaded(ix.file.entries)
              /\ Become(l, [l EXCEPT !.pc = "ask"])
              /\ UNCHANGED faults
           \/ /\ ~FileFresh
              /\ \E api \in Api :
                /\ faults' = api.left
                /\ \/ /\ api.ok
                      /\ \E saved \in {ix.file, [old |-> FALSE, entries |-> profile.published]} :
                            ix' = [loaded(profile.published) EXCEPT !.file = saved]
                      /\ Become(l, [l EXCEPT !.pc = "ask"])
                   \/ /\ ~api.ok /\ ix.file # None
                      /\ ix' = loaded(ix.file.entries)
                      /\ Become(l, [l EXCEPT !.pc = "ask"])
                   \/ /\ ~api.ok /\ ix.file = None
                      /\ ix' = [ix EXCEPT !.loading = FALSE, !.backoff = TRUE]
                      /\ Become(l, [l EXCEPT !.pc = "done"])
    /\ UNCHANGED <<lifecycleVars, cache>>

BackoffOver ==
    /\ ix.backoff /\ Running
    /\ ix' = [ix EXCEPT !.backoff = FALSE]
    /\ UNCHANGED <<lifecycleVars, cache, lookups, faults>>
-----------------------------------------------------------------------------
(* A refresh the user asks for, in a task of its own. *)

\* One at a time.
BeginRefresh == ix' = IF ix.refresh = "none" THEN [ix EXCEPT !.refresh = "fetch"] ELSE ix

\* Mutant: the flag stays up when the API fails.
RefreshFailedAwake == ix' = [ix EXCEPT !.backoff = TRUE, !.refresh = "stuck"]
RefreshFailed == ix' = [ix EXCEPT !.backoff = TRUE, !.refresh = "none"]

RefreshFetch ==
    /\ ix.refresh = "fetch" /\ Running
    /\ \E api \in Api :
        /\ faults' = api.left
        /\ \/ ~api.ok /\ RefreshFailed
           \/ /\ api.ok
              /\ \E saved \in {ix.file, [old |-> FALSE, entries |-> profile.published]} :
                    ix' = [ix EXCEPT !.refresh = "replace", !.file = saved, !.fetched = profile.published]
    /\ UNCHANGED <<lifecycleVars, cache, lookups>>

RefreshReplace ==
    /\ ix.refresh = "replace" /\ Running
    /\ ix' = [ix EXCEPT !.refresh = "clear", !.table = Table(ix.fetched)]
    /\ UNCHANGED <<lifecycleVars, cache, lookups, faults>>

RefreshClear ==
    /\ ix.refresh = "clear" /\ Running
    /\ cache' = [cache EXCEPT !["ix"] = <<>>]
    /\ ix' = [ix EXCEPT !.refresh = "none"]
    /\ UNCHANGED <<lifecycleVars, lookups, faults>>

LookupStep(l) == Check(l) \/ Ask(l) \/ Match(l) \/ Keep(l) \/ Load(l) \/ Enter(l) \/ LoadData(l)
RefreshStep == RefreshFetch \/ RefreshReplace \/ RefreshClear

EnrichStep ==
    \/ \E k \in DOMAIN worker : StartBatch(k) \/ FinishBatch(k) \/ Age(k)
    \/ \E l \in lookups : LookupStep(l)
    \/ BackoffOver \/ RefreshStep
=============================================================================
