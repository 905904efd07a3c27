----------------------------- MODULE CopyTrader -----------------------------
(***************************************************************************)
(* PolymarketCopyTrader (markets/polymarket/copy_trading.py): a process    *)
(* polls the trades of a target account, replicates each and remembers in  *)
(* a state file which it has replicated and when it last polled.  It may   *)
(* crash anywhere and be started again.                                    *)
(*                                                                         *)
(* The target and the data API are the environment.  A trade is named by   *)
(* the order in which it was made and carries the second in which it was   *)
(* made; the API may list it later.  The API serves the listed trades      *)
(* newest first in pages (_fetch_trades_paginated in api.py), so a trade   *)
(* listed between two pages moves older ones from one page to the next.    *)
(*                                                                         *)
(* Whether a trade is worth replicating (the size, the balance, the state  *)
(* of its market, dry_run) is a choice; so is whether the order of one     *)
(* that raises was executed.                                               *)
(***************************************************************************)
EXTENDS Naturals, Sequences, FiniteSets, SequencesExt

CONSTANTS
    Files,      \* values of "a state file is given" to explore
    PageSize,   \* TRADES_LIMIT
    OffsetCap,  \* the offset at which _fetch_trades_paginated stops
    Window,     \* how far the first poll looks back
    Second,     \* clock ticks in the unit of a trade's timestamp
    None,       \* no last_poll_timestamp
    MaxTrades,  \* bound: trades the target makes
    MaxTime,    \* bound: clock
    MaxCrashes  \* bound: crashes and exceptions that end a poll, each

ASSUME CopyAssumption ==
    /\ Files \subseteq BOOLEAN
    /\ PageSize \in Nat \ {0} /\ OffsetCap \in Nat \ {0}
    /\ Window \in Nat /\ Second \in Nat \ {0}
    /\ None \notin Nat
    /\ MaxTrades \in Nat /\ MaxTime \in Nat /\ MaxCrashes \in Nat

VARIABLES
    hasFile,
    now,
    stamp,       \* target: timestamps of its trades
    listed,      \* API: trades it serves
    pc,
    replicated,  \* _state.replicated_tx_hashes
    lastPoll,    \* _state.last_poll_timestamp
    since,       \* start of the interval being polled
    offset,      \* trades fetched so far, over all pages
    fetched,     \* trades fetched that are new enough
    queue,       \* new_trades left to replicate
    file,        \* the state file
    placed,      \* exchange: orders executed for each trade
    crashes, raises,
    considered,  \* history: trades replicate_trade was called for
    excused,     \* history: trades a poll need not find
    unsure       \* history: trades that may be replicated again

env == <<hasFile, stamp, listed>>
state == <<replicated, lastPoll>>
poll == <<since, offset, fetched>>
bounds == <<crashes, raises>>
vars == <<hasFile, now, stamp, listed, pc, replicated, lastPoll, since, offset,
          fetched, queue, file, placed, crashes, raises, considered, excused,
          unsure>>

Trades == DOMAIN stamp
\* A file is torn when it was opened for writing and not written.
Empty(kind) == [kind |-> kind, replicated |-> {}, lastPoll |-> None]

Init ==
    /\ hasFile \in Files
    /\ now = 0
    /\ stamp = <<>> /\ listed = {}
    /\ pc = "idle"
    /\ replicated = {} /\ lastPoll = None
    /\ since = 0 /\ offset = 0
    /\ fetched = <<>> /\ queue = <<>>
    /\ file = Empty("absent")
    /\ placed = [i \in 1..MaxTrades |-> 0]
    /\ crashes = 0 /\ raises = 0
    /\ considered = {} /\ excused = {} /\ unsure = {}

-----------------------------------------------------------------------------
Running == pc \in {"fetch", "replicate", "save"}

\* Trades of the feed that are at or beyond the offset cap.
BeyondCap(feed) == {i \in feed : Cardinality({j \in feed : j > i}) >= OffsetCap}

\* The end of the last poll the trader knows of, or will when it is up again.
KnownPoll == IF pc = "down" THEN file.lastPoll ELSE lastPoll

\* The API lists a trade.  A poll that is running may have passed its place;
\* one that ended may have been after its timestamp.
List(i, made) ==
    /\ listed' = listed \cup {i}
    /\ excused' = excused
           \cup (IF Running \/ (KnownPoll # None /\ made[i] < KnownPoll)
                 THEN {i} ELSE {})
           \cup BeyondCap(listed')
    /\ UNCHANGED <<hasFile, now, pc, state, poll, queue, file, placed, bounds,
                   considered, unsure>>

\* The target trades.  Timestamps are in whole seconds.
Make ==
    /\ Len(stamp) < MaxTrades
    /\ stamp' = Append(stamp, now - (now % Second))
    /\ \/ List(Len(stamp'), stamp')
       \/ UNCHANGED <<hasFile, now, listed, pc, state, poll, queue, file,
                      placed, bounds, considered, excused, unsure>>

ListLate ==
    /\ \E i \in Trades \ listed : List(i, stamp)
    /\ UNCHANGED stamp

Tick ==
    /\ now < MaxTime
    /\ now' = now + 1
    /\ UNCHANGED <<env, pc, state, poll, queue, file, placed, bounds,
                   considered, excused, unsure>>

-----------------------------------------------------------------------------
\* The elements of a set in an order of them.
Sorted(S, Before(_, _)) ==
    CHOOSE f \in [1..Cardinality(S) -> S] :
        \A j, k \in DOMAIN f : j < k => Before(f[j], f[k])

\* The items at some positions of a sequence, in an order of the positions.
Items(seq, positions, Before(_, _)) ==
    LET order == Sorted(positions, Before)
    IN  [k \in DOMAIN order |-> seq[order[k]]]

Feed == Sorted(listed, LAMBDA i, j : i > j)
LookBack == IF now >= Window THEN now - Window ELSE 0

\* Mutant: the interval starts after the last poll's time.
MutStartPoll ==
    /\ pc = "idle"
    /\ lastPoll # None => now > lastPoll
    /\ since' = IF lastPoll = None THEN LookBack ELSE lastPoll + 1
    /\ excused' = excused \cup
           IF lastPoll = None THEN {i \in Trades : stamp[i] < LookBack} ELSE {}
    /\ offset' = 0 /\ fetched' = <<>>
    /\ pc' = "fetch"
    /\ UNCHANGED <<env, now, state, queue, file, placed, bounds, considered,
                   unsure>>

\* run_once: since is the last poll's end, or a window back from now.  The
\* loop sleeps between polls, and a new process needs a tick to start.
StartPoll ==
    /\ pc = "idle"
    /\ lastPoll # None => now > lastPoll
    /\ since' = IF lastPoll = None THEN LookBack ELSE lastPoll
    /\ excused' = excused \cup
           IF lastPoll = None THEN {i \in Trades : stamp[i] < LookBack} ELSE {}
    /\ offset' = 0 /\ fetched' = <<>>
    /\ pc' = "fetch"
    /\ UNCHANGED <<env, now, state, queue, file, placed, bounds, considered,
                   unsure>>

Page == SubSeq(Feed, offset + 1, IF offset + PageSize < Len(Feed)
                                 THEN offset + PageSize ELSE Len(Feed))
NewEnough(page) ==
    Items(page, {k \in DOMAIN page : stamp[page[k]] >= since},
          LAMBDA a, b : a < b)

\* A stable sort by timestamps: trades of one second stay in the feed's order.
Before(trades, a, b) ==
    \/ stamp[trades[a]] < stamp[trades[b]]
    \/ stamp[trades[a]] = stamp[trades[b]] /\ a < b

\* Mutant: trades that were replicated already are kept.
MutKeepAll(trades) ==
    Items(trades, DOMAIN trades, LAMBDA a, b : Before(trades, a, b))

\* get_new_trades_since: replicated trades are left out, the others sorted.
QueueOf(trades) ==
    Items(trades, {k \in DOMAIN trades : trades[k] \notin replicated},
          LAMBDA a, b : Before(trades, a, b))

\* One page is fetched; a short page or the cap ends the fetch.
FetchPage ==
    /\ pc = "fetch"
    /\ fetched' = fetched \o NewEnough(Page)
    /\ unsure' = unsure \cup (ToSet(fetched) \cap ToSet(Page))
    /\ offset' = offset + Len(Page)
    /\ \/ /\ Len(Page) < PageSize \/ offset' >= OffsetCap
          /\ queue' = QueueOf(fetched')
          /\ pc' = "replicate"
       \/ /\ Len(Page) = PageSize /\ offset' < OffsetCap
          /\ UNCHANGED <<queue, pc>>
    /\ UNCHANGED <<env, now, state, since, file, placed, bounds, considered,
                   excused>>

Considered == considered' = considered \cup {Head(queue)}
Execute == placed' = [placed EXCEPT ![Head(queue)] = @ + 1]

\* Mutant: the hash is not remembered.
MutReplicate ==
    /\ pc = "replicate" /\ queue # <<>>
    /\ Execute
    /\ queue' = Tail(queue)
    /\ Considered
    /\ UNCHANGED <<env, now, pc, state, poll, file, bounds, excused, unsure>>

\* replicate_trade places the order and remembers the hash.
Replicate ==
    /\ pc = "replicate" /\ queue # <<>>
    /\ Execute
    /\ replicated' = replicated \cup {Head(queue)}
    /\ queue' = Tail(queue)
    /\ Considered
    /\ UNCHANGED <<env, now, pc, lastPoll, poll, file, bounds, excused, unsure>>

\* The market lookup fails, the trade is too small, there is no balance or
\* no position, the market is closed, dry_run is set or the order raises:
\* the hash is not remembered.
Skip ==
    /\ pc = "replicate" /\ queue # <<>>
    /\ queue' = Tail(queue)
    /\ Considered
    /\ UNCHANGED <<env, now, pc, state, poll, file, placed, bounds, excused,
                   unsure>>

\* The order raises although the exchange executed it.
SkipExecuted ==
    /\ pc = "replicate" /\ queue # <<>>
    /\ Execute
    /\ unsure' = unsure \cup {Head(queue)}
    /\ queue' = Tail(queue)
    /\ Considered
    /\ UNCHANGED <<env, now, pc, state, poll, file, bounds, excused>>

\* The first attempt of get_user_trades raises; the second starts over.
Refetch ==
    /\ pc = "fetch"
    /\ raises < MaxCrashes /\ raises' = raises + 1
    /\ offset' = 0 /\ fetched' = <<>>
    /\ UNCHANGED <<env, now, pc, state, since, queue, file, placed, crashes,
                   considered, excused, unsure>>

\* Both attempts to fetch raise, or a balance read outside the try blocks of
\* replicate_trade does: run_loop goes on with the state in memory.
PollRaises ==
    /\ pc = "fetch" \/ (pc = "replicate" /\ queue # <<>>)
    /\ raises < MaxCrashes /\ raises' = raises + 1
    /\ queue' = <<>>
    /\ pc' = "idle"
    /\ UNCHANGED <<env, now, state, poll, file, placed, crashes, considered,
                   excused, unsure>>

\* The poll ends: last_poll_timestamp is the present.  The state file is
\* opened for writing, which empties it.
Finish ==
    /\ pc = "replicate" /\ queue = <<>>
    /\ lastPoll' = now
    /\ \/ hasFile /\ pc' = "save" /\ file' = Empty("torn")
       \/ ~hasFile /\ pc' = "idle" /\ UNCHANGED file
    /\ UNCHANGED <<env, now, replicated, poll, queue, placed, bounds,
                   considered, excused, unsure>>

\* save_state writes the file.
Save ==
    /\ pc = "save"
    /\ file' = [kind |-> "written", replicated |-> replicated,
                lastPoll |-> lastPoll]
    /\ pc' = "idle"
    /\ UNCHANGED <<env, now, state, poll, queue, placed, bounds, considered,
                   excused, unsure>>

\* Writing it raises: run_loop goes on, the file stays empty.
SaveRaises ==
    /\ pc = "save"
    /\ raises < MaxCrashes /\ raises' = raises + 1
    /\ pc' = "idle"
    /\ UNCHANGED <<env, now, state, poll, queue, file, placed, crashes,
                   considered, excused, unsure>>

\* The process dies.  Trades it replicated and did not save may be replicated
\* again; those before the interval it forgot are out of reach.
Crash ==
    /\ pc \notin {"down", "broken"}
    /\ crashes < MaxCrashes /\ crashes' = crashes + 1
    /\ pc' = "down"
    /\ unsure' = unsure \cup {i \in listed : placed[i] > 0
                                  /\ i \notin file.replicated}
    /\ replicated' = {} /\ lastPoll' = None
    /\ since' = 0 /\ offset' = 0
    /\ fetched' = <<>> /\ queue' = <<>>
    /\ UNCHANGED <<env, now, file, placed, raises, considered, excused>>

\* __init__ loads the file if there is one; an emptied file cannot be parsed.
Restart ==
    /\ pc = "down"
    /\ \/ /\ file.kind = "torn"
          /\ pc' = "broken"
          /\ UNCHANGED state
       \/ /\ file.kind # "torn"
          /\ pc' = "idle"
          /\ replicated' = file.replicated
          /\ lastPoll' = file.lastPoll
    /\ UNCHANGED <<env, now, poll, queue, file, placed, bounds, considered,
                   excused, unsure>>

Trader ==
    \/ StartPoll \/ FetchPage \/ Refetch \/ Replicate \/ Skip \/ SkipExecuted
    \/ PollRaises \/ Finish \/ Save \/ SaveRaises \/ Crash \/ Restart

Next == Make \/ ListLate \/ Tick \/ Trader

Spec == Init /\ [][Next]_vars

-----------------------------------------------------------------------------
(***************************************************************************)
(* A trade is replicated once, unless its order raised after it was        *)
(* executed, the process died before the state was saved, or the feed      *)
(* moved between two pages and served the trade twice.                     *)
(***************************************************************************)
ReplicatedOnce == \A i \in Trades \ unsure : placed[i] <= 1

(***************************************************************************)
(* What the saved state says was replicated was, and no process replicates *)
(* it again while the file says so: neither after a crash, an exception or *)
(* a restart, nor when the feed moves and serves a trade twice.            *)
(***************************************************************************)
SavedIsFinal ==
    [][\A i \in file.replicated :
           placed[i] > 0 /\ placed'[i] = placed[i]]_vars

(***************************************************************************)
(* Between polls every trade older than the last poll was considered,      *)
(* unless it was listed while a poll was running, listed with a timestamp  *)
(* before the previous poll's end (late, or in the same second), beyond    *)
(* the page cap, or beyond the window of a process with no saved state.    *)
(***************************************************************************)
NoneMissed ==
    pc = "idle" /\ lastPoll # None =>
        \A i \in listed \ excused : stamp[i] < lastPoll => i \in considered

=============================================================================
