--------------------------- MODULE TerminalLaunch ---------------------------
(***************************************************************************)
(* How the desktop launches a terminal: the launch-safety journal          *)
(* (os/persistence.ts), the shared reserve / execute / settle life cycle   *)
(* and the manual resolution of a stuck launch                             *)
(* (os/terminal-launch-lifecycle.ts), and their callers: the Agent Hub,    *)
(* the "new terminal window" action and the Terminals application.         *)
(*                                                                         *)
(* Pages of one browser origin share the journal and the saved session in  *)
(* local storage; the registry of launches in progress belongs to a page   *)
(* and dies with it.  A journal transaction runs under an exclusive Web    *)
(* Lock and contains no await, so it is one step; what comes before and    *)
(* after it in the same function are other steps.  The attempt id and the  *)
(* requested terminal id are drawn together, so attempt n asks for         *)
(* terminal n.                                                             *)
(***************************************************************************)
EXTENDS Integers, Sequences, SequencesExt, FiniteSets

CONSTANTS
    Pages,          \* browser tabs of the origin
    Identities,     \* canonical launch identities (profile, target, cwd)
    MaxAttempts,    \* bound: reservations made in a behaviour
    MaxRecords,     \* MAX_LAUNCH_JOURNAL_RECORDS
    MaxGeneration,  \* bound: connections a page makes
    Reloads,        \* bound: page reloads (or openings of the saved session)
    LateRequests,   \* may a create outlive the client call that sent it?
    StorageFails    \* may localStorage.setItem throw?

ASSUME BoundsAssumption ==
    /\ MaxAttempts \in Nat /\ MaxRecords \in Nat \ {0}
    /\ MaxGeneration \in Nat /\ Reloads \in Nat
    /\ LateRequests \in BOOLEAN /\ StorageFails \in BOOLEAN

VARIABLES
    journal,    \* the records, in document order
    issued,     \* attempts reserved so far
    reserved,   \* page -> reservedAttempts
    executing,  \* page -> attempts with an executeTerminalLaunch under way
    conn,       \* page -> [up, gen]: the profile's connection snapshot
    win,        \* page -> the terminals window it shows, or NoWindow
    saved,      \* the terminal id of the window in the saved session, or 0
    calls,      \* launches under way: [page, kind, att, sid, gen, ph, own]
    net,        \* create requests the server has not handled: [page, att, sid]
    live,       \* terminal -> incarnation of its live PTY, 0 when there is none
    made,       \* terminals the server has created at least once
    notice,     \* page -> the stuck attempt its Hub notice shows, or 0
    resolver,   \* page -> the resolveStuckLaunch call under way
    reloads     \* reloads so far

vars == <<journal, issued, reserved, executing, conn, win, saved, calls, net,
          live, made, notice, resolver, reloads>>

Attempts == 1..MaxAttempts
NoWindow == [sid |-> 0, att |-> 0, dispatched |-> FALSE, attached |-> FALSE,
             err |-> FALSE]
Idle == [ph |-> "idle", att |-> 0, confirm |-> FALSE, gen |-> 0, seen |-> 0]

Unresolved(r) == r.state \in {"reserved", "uncertain"}
Positions(a) == {k \in DOMAIN journal : journal[k].att = a}
HasRecord(a) == Positions(a) # {}
RecordOf(a) == journal[CHOOSE k \in Positions(a) : TRUE]
IsUnresolved(a) == HasRecord(a) /\ Unresolved(RecordOf(a))

Init ==
    /\ journal = <<>>
    /\ issued = 0
    /\ reserved = [p \in Pages |-> {}]
    /\ executing = [p \in Pages |-> {}]
    /\ conn = [p \in Pages |-> [up |-> TRUE, gen |-> 1]]
    /\ win = [p \in Pages |-> NoWindow]
    /\ saved = 0
    /\ calls = {}
    /\ net = {}
    /\ live = [s \in Attempts |-> 0]
    /\ made = {}
    /\ notice = [p \in Pages |-> 0]
    /\ resolver = [p \in Pages |-> Idle]
    /\ reloads = 0

(***************************************************************************)
(* The journal.                                                            *)
(***************************************************************************)

(* The time of the next settlement: later than every settlement recorded.  *)
NextTime == 1 + Max({0} \cup {journal[k].at : k \in DOMAIN journal})

(* Defect: only a reservation blocks, an uncertain attempt does not. *)
BlockingIgnoresUncertain(i) ==
    LET same == {k \in DOMAIN journal : journal[k].ident = i /\ journal[k].state = "reserved"}
    IN  IF same = {} THEN 0 ELSE journal[Min(same)].att

(* The unresolved record that blocks a reservation, or 0. *)
Blocking(i) ==
    LET same == {k \in DOMAIN journal : journal[k].ident = i /\ Unresolved(journal[k])}
    IN  IF same = {} THEN 0 ELSE journal[Min(same)].att

(* At capacity the settled records are compacted: every unresolved record  *)
(* stays, with the most recently settled ones that fit beside the new one. *)
Compacted ==
    IF Len(journal) < MaxRecords THEN journal
    ELSE LET unresolved == SelectSeq(journal, Unresolved)
             settled == SortSeq(SelectSeq(journal, LAMBDA r : ~Unresolved(r)),
                                LAMBDA r, s : r.at > s.at)
             quota == MaxRecords - Len(unresolved) - 1
         IN  unresolved \o SubSeq(settled, 1, Min({Len(settled), Max({0, quota})}))

JournalFull == Len(SelectSeq(journal, Unresolved)) >= MaxRecords

(* settleTerminalLaunch: nothing happens to a missing or a settled record. *)
Settled(a, outcome) ==
    IF ~IsUnresolved(a) THEN journal
    ELSE [k \in DOMAIN journal |->
            IF journal[k].att # a THEN journal[k]
            ELSE [journal[k] EXCEPT !.state = outcome,
                                    !.at = IF outcome = "uncertain" THEN @ ELSE NextTime]]

(* The journal after a settlement, written or refused by the storage. *)
SettleWrites(a, outcome) ==
    \/ journal' = Settled(a, outcome)
    \/ StorageFails /\ journal' = journal

(***************************************************************************)
(* Reservation.                                                            *)
(***************************************************************************)

(* reserveTerminalLaunch, as far as its journal transaction. The caller is *)
(* the Hub's launch button, the new-window action, or the retry button of  *)
(* a window whose launch was dispatched or failed.                         *)
MayReserve(p, kind) ==
    /\ \A c \in calls : c.page = p => (c.kind = "hub") # (kind = "hub")
    /\ \/ kind = "hub" /\ conn[p].up
       \/ kind = "window" /\ win[p] = NoWindow
       \/ kind = "retry" /\ win[p].att # 0 /\ conn[p].up /\ ~win[p].attached
          /\ (win[p].err \/ win[p].dispatched)

Reserve(p, kind, i) ==
    /\ MayReserve(p, kind)
    /\ issued < MaxAttempts
    /\ Blocking(i) = 0
    /\ ~JournalFull
    /\ issued' = issued + 1
    /\ journal' = Append(Compacted, [att |-> issued + 1, ident |-> i,
                                     state |-> "reserved", at |-> 0])
    /\ calls' = calls \cup {[page |-> p, kind |-> kind, att |-> issued + 1,
                             sid |-> issued + 1, gen |-> conn[p].gen,
                             ph |-> "reserved", own |-> TRUE]}
    /\ UNCHANGED <<reserved, executing, conn, win, saved, net, live, made,
                   notice, resolver, reloads>>

(* A blocked reservation changes nothing but the Hub's stuck notice. *)
ReserveBlocked(p, i) ==
    /\ MayReserve(p, "hub")
    /\ Blocking(i) # 0 /\ notice[p] # Blocking(i)
    /\ resolver[p].ph = "idle"
    /\ notice' = [notice EXCEPT ![p] = Blocking(i)]
    /\ UNCHANGED <<journal, issued, reserved, executing, conn, win, saved,
                   calls, net, live, made, resolver, reloads>>

(***************************************************************************)
(* Execution.                                                              *)
(***************************************************************************)

(* The synchronous start of executeTerminalLaunch: the attempt is marked   *)
(* as executing, then the create request leaves, unless the profile is not *)
(* connected or its generation is not the one the caller captured.         *)
Dispatch(c) ==
    LET ready == conn[c.page].up /\ conn[c.page].gen = c.gen
    IN  /\ executing' = IF c.att = 0 THEN executing
                        ELSE [executing EXCEPT ![c.page] = @ \cup {c.att}]
        /\ reserved' = [reserved EXCEPT ![c.page] = @ \ {c.att}]
        /\ net' = IF ready THEN net \cup {[page |-> c.page, att |-> c.att, sid |-> c.sid]}
                  ELSE net
        /\ calls' = (calls \ {c}) \cup
                    {[c EXCEPT !.ph = IF ready THEN "sent" ELSE "not-created"]}

(* The reservation returns to the Hub, which executes at once. *)
HubExecutes(c) ==
    /\ c.kind = "hub" /\ c.ph = "reserved"
    /\ Dispatch(c)
    /\ UNCHANGED <<journal, issued, conn, win, saved, live, made, notice,
                   resolver, reloads>>

(* It returns to the action executor, which opens a window on the attempt, *)
(* or to the retry button, which re-targets its window.                    *)
WindowReserved(c) ==
    /\ c.kind \in {"window", "retry"} /\ c.ph = "reserved"
    /\ reserved' = [reserved EXCEPT ![c.page] = @ \cup {c.att}]
    /\ win' = [win EXCEPT ![c.page] =
                 IF c.kind = "retry" /\ @ = NoWindow THEN @
                 ELSE [NoWindow EXCEPT !.sid = c.sid, !.att = c.att]]
    /\ calls' = calls \ {c}
    /\ UNCHANGED <<journal, issued, executing, conn, saved, net, live, made,
                   notice, resolver, reloads>>

(* The Terminals application launches when it is shown, connected, holds   *)
(* the claim and has neither dispatched nor attached.                      *)
AutoLaunch(p) ==
    /\ win[p] # NoWindow /\ ~win[p].dispatched /\ ~win[p].attached
    /\ conn[p].up
    /\ win' = [win EXCEPT ![p].dispatched = TRUE]
    /\ Dispatch([page |-> p, kind |-> "window", att |-> win[p].att,
                 sid |-> win[p].sid, gen |-> conn[p].gen, ph |-> "reserved",
                 own |-> TRUE])
    /\ UNCHANGED <<journal, issued, conn, saved, live, made, notice, resolver,
                   reloads>>

(* The request of a call, while the server has not handled it. *)
RequestOf(c) == [page |-> c.page, att |-> c.att, sid |-> c.sid]

(* The create call ends. The server's answer decides; a call that ends     *)
(* without one (a timeout, a lost connection, a 5xx) is uncertain, and so  *)
(* is a success without a canonical epoch and incarnation.                 *)
CallEnds(c, outcome) ==
    /\ calls' = (calls \ {c}) \cup
                {[c EXCEPT !.ph = outcome,
                           !.own = conn[c.page].up /\ conn[c.page].gen = c.gen]}
    /\ UNCHANGED <<journal, issued, reserved, executing, conn, win, saved,
                   live, made, notice, resolver, reloads>>

Answered(c) ==
    /\ \/ c.ph = "created" /\ CallEnds(c, "success")
       \/ c.ph = "rejected" /\ CallEnds(c, "not-created")
       \/ c.ph \in {"created", "rejected"} /\ CallEnds(c, "uncertain")
    /\ UNCHANGED net

(* The request itself is lost, or it is merely late. *)
GivesUp(c) ==
    /\ c.ph = "sent"
    /\ CallEnds(c, "uncertain")
    /\ net' = IF LateRequests THEN net ELSE net \ {RequestOf(c)}

(* Defect: the registry entry survives the launch. *)
FinishKeepsEntry(c) ==
    /\ c.ph \in {"success", "not-created", "uncertain"}
    /\ IF c.att = 0 THEN UNCHANGED journal ELSE SettleWrites(c.att, c.ph)
    /\ calls' = calls \ {c}
    /\ UNCHANGED <<issued, reserved, executing, conn, win, saved, net, live,
                   made, notice, resolver, reloads>>

(* The outcome is settled in the journal, the attempt leaves the registry  *)
(* and the window, if it still shows this terminal, attaches or reports.   *)
Finish(c) ==
    /\ c.ph \in {"success", "not-created", "uncertain"}
    /\ IF c.att = 0 THEN UNCHANGED journal ELSE SettleWrites(c.att, c.ph)
    /\ executing' = [executing EXCEPT ![c.page] = @ \ {c.att}]
    /\ calls' = calls \ {c}
    /\ win' = [win EXCEPT ![c.page] =
                 IF c.kind = "hub" \/ @.sid # c.sid THEN @
                 ELSE IF c.ph = "success" /\ c.own THEN [@ EXCEPT !.attached = TRUE, !.err = FALSE]
                 ELSE [@ EXCEPT !.err = TRUE]]
    /\ UNCHANGED <<issued, reserved, conn, saved, net, live, made, notice,
                   resolver, reloads>>

(* Closing a window whose attempt was never dispatched settles it. *)
CloseWindow(p) ==
    /\ win[p] # NoWindow
    /\ IF win[p].att # 0 /\ ~win[p].dispatched /\ ~win[p].attached
       THEN SettleWrites(win[p].att, "not-created") ELSE UNCHANGED journal
    /\ win' = [win EXCEPT ![p] = NoWindow]
    /\ UNCHANGED <<issued, reserved, executing, conn, saved, calls, net, live,
                   made, notice, resolver, reloads>>

(***************************************************************************)
(* resolveStuckLaunch: the Hub's "clear stuck launch", first to look, then *)
(* with the user's confirmation.  A step that ends in "in-flight",         *)
(* "unknown" or "already-resolved" is ResolveEnds.                         *)
(***************************************************************************)

(* Defect: only reservations count as launches in progress. *)
IsReservedOnly(p, a) == a \in reserved[p]

IsActive(p, a) == a \in reserved[p] \cup executing[p]

ResolveStart(p, confirm) ==
    /\ resolver[p].ph = "idle" /\ notice[p] # 0
    /\ IsUnresolved(notice[p]) /\ ~IsActive(p, notice[p]) /\ conn[p].up
    /\ resolver' = [resolver EXCEPT ![p] =
                      [ph |-> "ask1", att |-> notice[p], confirm |-> confirm,
                       gen |-> conn[p].gen, seen |-> 0]]
    /\ UNCHANGED <<journal, issued, reserved, executing, conn, win, saved,
                   calls, net, live, made, notice, reloads>>

(* The server takes the inventory; its answer is used later. A reservation *)
(* made before the request left has returned to its caller by now: the     *)
(* release of a lock in the browser is faster than a round trip.           *)
Inventory(p) ==
    /\ resolver[p].ph \in {"ask1", "ask2"}
    /\ \A c \in calls : c.ph = "reserved" => c.att # resolver[p].att
    /\ resolver' = [resolver EXCEPT
         ![p].ph = IF @ = "ask1" THEN "got1" ELSE "got2",
         ![p].seen = live[resolver[p].att]]
    /\ UNCHANGED <<journal, issued, reserved, executing, conn, win, saved,
                   calls, net, live, made, notice, reloads>>

(* The observation still belongs to the connection that asked for it. *)
Current(p) == conn[p].up /\ conn[p].gen = resolver[p].gen

(* The terminal is listed: the attempt will be settled as a success. *)
ResolveFound(p) ==
    /\ resolver[p].ph \in {"got1", "got2"} /\ Current(p) /\ resolver[p].seen # 0
    /\ resolver' = [resolver EXCEPT ![p].ph = "found"]
    /\ UNCHANGED <<journal, issued, reserved, executing, conn, win, saved,
                   calls, net, live, made, notice, reloads>>

(* It is absent and the user has confirmed: everything is checked again    *)
(* and the inventory is asked for a second time.                           *)
ResolveConfirmed(p) ==
    /\ resolver[p].ph = "got1" /\ Current(p) /\ resolver[p].seen = 0
    /\ resolver[p].confirm
    /\ IsUnresolved(resolver[p].att) /\ ~IsActive(p, resolver[p].att)
    /\ resolver' = [resolver EXCEPT ![p].ph = "ask2"]
    /\ UNCHANGED <<journal, issued, reserved, executing, conn, win, saved,
                   calls, net, live, made, notice, reloads>>

(* Still absent: the attempt will be settled as not created, unless it has *)
(* become active in this page.                                             *)
ResolveAbsent(p) ==
    /\ resolver[p].ph = "got2" /\ Current(p) /\ resolver[p].seen = 0
    /\ ~IsActive(p, resolver[p].att)
    /\ resolver' = [resolver EXCEPT ![p].ph = "absent"]
    /\ UNCHANGED <<journal, issued, reserved, executing, conn, win, saved,
                   calls, net, live, made, notice, reloads>>

(* The settlement, under the journal's lock, and its durable verification: *)
(* the notice goes when the record says what was settled.                  *)
ResolveSettles(p) ==
    LET a == resolver[p].att
        outcome == IF resolver[p].ph = "found" THEN "success" ELSE "not-created"
    IN  /\ resolver[p].ph \in {"found", "absent"}
        /\ SettleWrites(a, outcome)
        /\ notice' = [notice EXCEPT ![p] =
             IF \E k \in DOMAIN journal' : journal'[k].att = a /\ journal'[k].state = outcome
             THEN 0 ELSE @]
        /\ resolver' = [resolver EXCEPT ![p] = Idle]
        /\ UNCHANGED <<issued, reserved, executing, conn, win, saved, calls,
                       net, live, made, reloads>>

(* The call ends without settling: the observation failed, belonged to     *)
(* another connection or was only a look, or the attempt is active, gone   *)
(* or settled.                                                             *)
ResolveEnds(p) ==
    /\ \/ resolver[p].ph \in {"ask1", "ask2"}
       \/ resolver[p].ph \in {"got1", "got2"} /\
          (\/ ~Current(p) \/ ~resolver[p].confirm
           \/ IsActive(p, resolver[p].att) \/ ~IsUnresolved(resolver[p].att))
    /\ resolver' = [resolver EXCEPT ![p] = Idle]
    /\ UNCHANGED <<journal, issued, reserved, executing, conn, win, saved,
                   calls, net, live, made, notice, reloads>>

(* The user dismisses the notice. *)
Dismiss(p) ==
    /\ notice[p] # 0 /\ resolver[p].ph = "idle"
    /\ notice' = [notice EXCEPT ![p] = 0]
    /\ UNCHANGED <<journal, issued, reserved, executing, conn, win, saved,
                   calls, net, live, made, resolver, reloads>>

(***************************************************************************)
(* The server (modelled from how this code uses it), connections, reloads. *)
(***************************************************************************)

(* The call that waits for this request has its answer. *)
Handled(n, answer) ==
    {IF c.ph = "sent" /\ RequestOf(c) = n THEN [c EXCEPT !.ph = answer] ELSE c : c \in calls}

(* A create kills the live session with the same id, if any, and starts a  *)
(* new incarnation of it.                                                  *)
ServerCreates(n) ==
    /\ net' = net \ {n}
    /\ live' = [live EXCEPT ![n.sid] = @ + 1]
    /\ made' = made \cup {n.sid}
    /\ calls' = Handled(n, "created")
    /\ UNCHANGED <<journal, issued, reserved, executing, conn, win, saved,
                   notice, resolver, reloads>>

(* The server refuses the create (400, 401, 403, 404, 413, 422). *)
ServerRejects(n) ==
    /\ net' = net \ {n}
    /\ calls' = Handled(n, "rejected")
    /\ UNCHANGED <<journal, issued, reserved, executing, conn, win, saved, live, made, notice, resolver, reloads>>

(* The shell exits and its session leaves the inventory. *)
TerminalExits(s) ==
    /\ live[s] # 0
    /\ live' = [live EXCEPT ![s] = 0]
    /\ UNCHANGED <<journal, issued, reserved, executing, conn, win, saved,
                   calls, net, made, notice, resolver, reloads>>

Disconnect(p) ==
    /\ conn[p].up /\ conn[p].gen < MaxGeneration
    /\ conn' = [conn EXCEPT ![p].up = FALSE]
    /\ UNCHANGED <<journal, issued, reserved, executing, win, saved, calls,
                   net, live, made, notice, resolver, reloads>>

Reconnect(p) ==
    /\ ~conn[p].up
    /\ conn' = [conn EXCEPT ![p] = [up |-> TRUE, gen |-> @.gen + 1]]
    /\ UNCHANGED <<journal, issued, reserved, executing, win, saved, calls,
                   net, live, made, notice, resolver, reloads>>

(* The session is saved: of a terminals window only the terminal id (and   *)
(* the directory) are kept.                                                *)
SaveSession(p) ==
    /\ Reloads > 0 /\ saved # win[p].sid
    /\ saved' = win[p].sid
    /\ UNCHANGED <<journal, issued, reserved, executing, conn, win, calls, net,
                   live, made, notice, resolver, reloads>>

(* The page is loaded again (or opened in another tab) from the saved      *)
(* session; its memory and its calls are gone, its requests are not.       *)
Reload(p) ==
    /\ reloads < Reloads
    /\ reloads' = reloads + 1
    /\ reserved' = [reserved EXCEPT ![p] = {}]
    /\ executing' = [executing EXCEPT ![p] = {}]
    /\ conn' = [conn EXCEPT ![p] = [up |-> TRUE, gen |-> 1]]
    /\ win' = [win EXCEPT ![p] = [NoWindow EXCEPT !.sid = saved]]
    /\ calls' = {c \in calls : c.page # p}
    /\ notice' = [notice EXCEPT ![p] = 0]
    /\ resolver' = [resolver EXCEPT ![p] = Idle]
    /\ UNCHANGED <<journal, issued, saved, net, live, made>>

PageNext(p) ==
    \/ \E kind \in {"hub", "window", "retry"}, i \in Identities : Reserve(p, kind, i)
    \/ \E i \in Identities : ReserveBlocked(p, i)
    \/ AutoLaunch(p) \/ CloseWindow(p)
    \/ \E b \in BOOLEAN : ResolveStart(p, b)
    \/ Inventory(p) \/ ResolveFound(p) \/ ResolveConfirmed(p) \/ ResolveAbsent(p)
    \/ ResolveSettles(p) \/ ResolveEnds(p) \/ Dismiss(p)
    \/ Disconnect(p) \/ Reconnect(p) \/ SaveSession(p) \/ Reload(p)

CallNext(c) ==
    \/ HubExecutes(c) \/ WindowReserved(c)
    \/ Answered(c) \/ GivesUp(c) \/ Finish(c)

ServerNext ==
    \/ \E n \in net : ServerCreates(n) \/ ServerRejects(n)
    \/ \E s \in Attempts : TerminalExits(s)

Next ==
    \/ \E p \in Pages : PageNext(p)
    \/ \E c \in calls : CallNext(c)
    \/ ServerNext

Spec == Init /\ [][Next]_vars

(* A reservation that returned is continued, a create call ends (the       *)
(* transport times a request out) and an outcome is settled.               *)
Fairness == WF_vars(\E c \in calls : CallNext(c))
FairSpec == Spec /\ Fairness

-----------------------------------------------------------------------------
(* The shape of every variable. *)
TypeOK ==
    /\ \A k \in DOMAIN journal :
          journal[k] \in [att : Attempts, ident : Identities, at : Nat,
                          state : {"reserved", "success", "not-created", "uncertain"}]
    /\ issued \in 0..MaxAttempts
    /\ reserved \in [Pages -> SUBSET Attempts]
    /\ executing \in [Pages -> SUBSET Attempts]
    /\ conn \in [Pages -> [up : BOOLEAN, gen : 1..MaxGeneration]]
    /\ win \in [Pages -> [sid : 0..MaxAttempts, att : 0..MaxAttempts,
                          dispatched : BOOLEAN, attached : BOOLEAN, err : BOOLEAN]]
    /\ saved \in 0..MaxAttempts
    /\ calls \subseteq [page : Pages, kind : {"hub", "window", "retry"},
                        att : 0..MaxAttempts, sid : Attempts, gen : 1..MaxGeneration,
                        ph : {"reserved", "sent", "created", "rejected",
                              "success", "not-created", "uncertain"}, own : BOOLEAN]
    /\ net \subseteq [page : Pages, att : 0..MaxAttempts, sid : Attempts]
    /\ live \in [Attempts -> Nat] /\ made \subseteq Attempts
    /\ notice \in [Pages -> 0..MaxAttempts]
    /\ resolver \in [Pages -> [ph : {"idle", "ask1", "got1", "ask2", "got2", "found", "absent"},
                               att : 0..MaxAttempts, confirm : BOOLEAN,
                               gen : 0..MaxGeneration, seen : Nat]]
    /\ reloads \in 0..Reloads

(* What the journal settles is the truth: an attempt recorded as not       *)
(* created has no live terminal and no create on its way, whoever settled  *)
(* it (the launch itself, a closed window, or the user through             *)
(* resolveStuckLaunch), and one recorded as a success was created.  Until  *)
(* its call ends, a launch is never recorded as not created.               *)
SettledIsTrue ==
    /\ \A c \in calls : HasRecord(c.att) => RecordOf(c.att).state # "not-created"
    /\ \A k \in DOMAIN journal :
          LET r == journal[k]
          IN  /\ r.state = "not-created" =>
                    live[r.att] = 0 /\ \A n \in net : n.sid # r.att
              /\ r.state = "success" => r.att \in made

(* The journal blocks a second launch of an identity for as long as the    *)
(* first is unresolved: whatever pages do, reload and race, there is at    *)
(* most one unresolved record per identity, within the capacity.           *)
OneLaunchPerIdentity ==
    /\ Len(journal) <= MaxRecords
    /\ \A j, k \in DOMAIN journal :
          /\ journal[j].ident = journal[k].ident
          /\ Unresolved(journal[j]) /\ Unresolved(journal[k])
          => j = k

(* An attempt that its page holds as reserved and the journal as           *)
(* unresolved is one a window of the page will dispatch or settle: nobody  *)
(* else will, and resolveStuckLaunch calls it "in-flight".                 *)
\* Does not hold (README, known deviations).
ReservationHasWindow ==
    \A p \in Pages : \A a \in reserved[p] : IsUnresolved(a) => win[p].att = a

(* A step never recreates a terminal: while a terminal lives, no create    *)
(* for the same id replaces its PTY.                                       *)
\* Does not hold across a page reload (README, known deviations).
NeverRecreated ==
    [][\A s \in Attempts : live[s] # 0 => live'[s] \in {0, live[s]}]_vars

=============================================================================
