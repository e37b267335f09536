----------------------------- MODULE Dashboard ------------------------------
(***************************************************************************)
(* `portunus-standalone stats`: one program that reads the statistics      *)
(* socket of the daemon (Standalone) and prints one snapshot or draws the  *)
(* terminal dashboard (stats/client.rs, stats/tui).                        *)
(*                                                                         *)
(* run_loop reads a line under a 50 ms timeout.  read_line is not safe to  *)
(* cancel: the bytes of a line that is only half there at the timeout are  *)
(* lost, and the rest of that line is read as a line of its own.           *)
(*                                                                         *)
(* Snapshots are sent one refresh period apart, so a snapshot's number     *)
(* stands for its uptime; of its counters the bytes in of each rule are    *)
(* kept.  A frame is the rates, totals and probe times of every rule: which *)
(* of them the chosen tab and row show, and the help, is left out.         *)
(***************************************************************************)
EXTENDS Standalone

CONSTANTS
    Shown,        \* Hello.rules: a sequence of [proto, priorities]
    Window60,     \* Client.capacity
    MaxShots,     \* bound: snapshots the daemon sends
    Bursts,       \* bytes in per rule that one period may count
    SampleCap,    \* capacity of the probe channel
    MaxProbeRounds, MaxKeys   \* bounds: rounds of probes, keys pressed

ASSUME DashboardAssumption ==
    Len(Shown) > 0 /\ Window60 \in Nat \ {0} /\ SampleCap \in Nat \ {0}

VARIABLES
    shots,     \* the snapshots sent so far
    link,      \* the connection: [open, half, line], line the pieces not read yet
    dash,      \* the program: [at, code]
    ring60,    \* Client.ring: numbers of the snapshots kept
    view,      \* AppState
    probes,    \* [flying, channel, samples, rounds]
    dirty,     \* something visible changed since the last frame was drawn
    screen     \* the frame on the terminal

dashboardVars == <<shots, link, dash, ring60, view, probes, dirty, screen>>

Rows == DOMAIN Shown

-----------------------------------------------------------------------------
(* The daemon's end: handle_client *)

\* What is left of the socket is read where run_loop waits for it, or in once;
\* whatever is sent during the rest of a turn is read in the next one.
Listening == dash.at \in {"read", "once"}

Counters == IF shots = <<>> THEN [i \in Rows |-> 0] ELSE shots[Len(shots)]

\* The rules count on for a period; then build_snapshot and write_line, whose
\* line may arrive in two pieces.
SendShot(burst, split) ==
    /\ Listening /\ link.open /\ ~link.half /\ Len(shots) < MaxShots
    /\ shots' = Append(shots, [i \in Rows |-> Counters[i] + burst[i]])
    /\ link' = [link EXCEPT !.half = split,
                  !.line = Append(@, [shot |-> Len(shots) + 1,
                                      piece |-> IF split THEN "head" ELSE "whole"])]
    /\ UNCHANGED <<dash, ring60, view, probes, dirty, screen>>

SendRest ==
    /\ Listening /\ link.open /\ link.half
    /\ link' = [link EXCEPT !.half = FALSE,
                            !.line = Append(@, [shot |-> Len(shots), piece |-> "tail"])]
    /\ UNCHANGED <<shots, dash, ring60, view, probes, dirty, screen>>

\* The daemon stops, or a write timed out, maybe in the middle of a line.
DaemonHangsUp ==
    /\ Listening /\ link.open
    /\ link' = [link EXCEPT !.open = FALSE]
    /\ UNCHANGED <<shots, dash, ring60, view, probes, dirty, screen>>

-----------------------------------------------------------------------------
(* run_stats, run and run_inner *)

Leave(code) == dash' = [dash EXCEPT !.at = "exited", !.code = code]

\* Client::connect and the Hello line; a server that is full drops the stream.
ConnectStats(once, welcomed) ==
    /\ dash.at = "start"
    /\ IF welcomed
       THEN dash' = [dash EXCEPT !.at = IF once THEN "once" ELSE "terminal"]
       ELSE Leave(2)
    /\ link' = [link EXCEPT !.open = welcomed]
    /\ UNCHANGED <<shots, ring60, view, probes, dirty, screen>>

\* A line that can be read to its end: the next piece is one, or a half with
\* its rest behind it.
WholeLine == link.line # <<>> /\ Head(link.line).piece = "whole"
TwoHalves == Len(link.line) > 1 /\ Head(link.line).piece = "head"

\* once: one snapshot, or a line that does not parse.
Once ==
    /\ dash.at = "once"
    /\ \/ (WholeLine \/ TwoHalves) /\ Leave(0)
       \/ ~link.open /\ ~WholeLine /\ ~TwoHalves /\ Leave(2)
    /\ UNCHANGED <<shots, link, ring60, view, probes, dirty, screen>>

\* TerminalGuard::enter and Terminal::new
EnterTerminal ==
    /\ dash.at = "terminal"
    /\ Leave(2) \/ dash' = [dash EXCEPT !.at = "read"]
    /\ UNCHANGED <<shots, link, ring60, view, probes, dirty, screen>>

-----------------------------------------------------------------------------
(* run_loop: read, probes, input, draw *)

\* Client::push
Push(n) ==
    LET longer == Append(ring60, n)
    IN  ring60' = IF Len(longer) > Window60 THEN Tail(longer) ELSE longer

\* Slip: what is read while paused is kept, and shown as soon as a key is pressed.
PushPaused(n) == Push(n) /\ dirty' = (dirty \/ ~view.paused)

\* A snapshot was read; a paused dashboard throws it away.
TakeShot(n) ==
    IF view.paused THEN UNCHANGED <<ring60, dirty>>
    ELSE Push(n) /\ dirty' = TRUE

\* One line: a snapshot, or the rest of one whose head is lost, or a head the
\* daemon will not finish; the latter two do not parse.
ReadLine ==
    /\ dash.at = "read"
    /\ \/ WholeLine /\ TakeShot(Head(link.line).shot) /\ link' = [link EXCEPT !.line = Tail(@)]
       \/ TwoHalves /\ TakeShot(Head(link.line).shot) /\ link' = [link EXCEPT !.line = Tail(Tail(@))]
       \/ /\ link.line # <<>> /\ ~WholeLine /\ ~TwoHalves
          /\ Head(link.line).piece = "tail" \/ ~link.open
          /\ link' = [link EXCEPT !.line = Tail(@)]
          /\ UNCHANGED <<ring60, dirty>>
    /\ dash' = [dash EXCEPT !.at = "probes"]
    /\ UNCHANGED <<shots, view, probes, screen>>

\* 50 ms without a whole line; a half that was read by then is gone.
LineTimesOut ==
    /\ dash.at = "read" /\ link.open
    /\ link.line = <<>> \/ (Len(link.line) = 1 /\ Head(link.line).piece = "head")
    /\ link' = [link EXCEPT !.line = <<>>]
    /\ dash' = [dash EXCEPT !.at = "probes"]
    /\ UNCHANGED <<shots, ring60, view, probes, dirty, screen>>

\* The end of the stream is a success, an error of the socket is not.
ReadEnds ==
    /\ dash.at = "read" /\ ~link.open /\ link.line = <<>>
    /\ \E code \in {0, 2} : Leave(code)
    /\ UNCHANGED <<shots, link, ring60, view, probes, dirty, screen>>

\* active_target: the first target of the lowest priority.
ActiveTarget(i) ==
    LET p == Shown[i].priorities
    IN  {k \in DOMAIN p : \A j \in DOMAIN p : p[k] < p[j] \/ (p[k] = p[j] /\ k <= j)}
Probed == {i \in Rows : Shown[i].proto = "tcp" /\ ActiveTarget(i) # {}}

\* The channel is drained, later samples over earlier ones; then, when it is time
\* (at once the first time), a probe is spawned for every TCP rule.  A probe lasts
\* at most a second and rounds are two seconds apart: none is left of the last.
LatestSample(i) ==
    LET of == {k \in DOMAIN probes.channel : probes.channel[k].row = i}
    IN  IF of = {} THEN probes.samples[i]
        ELSE probes.channel[CHOOSE k \in of : \A j \in of : j <= k].sample
ProbeTurn(due) ==
    /\ dash.at = "probes"
    /\ probes.rounds = 0 => due
    /\ due => probes.flying = {} /\ probes.rounds < MaxProbeRounds
    /\ probes' = [flying |-> IF due THEN Probed ELSE probes.flying,
                  channel |-> <<>>,
                  samples |-> [i \in Rows |-> LatestSample(i)],
                  rounds |-> probes.rounds + IF due THEN 1 ELSE 0]
    /\ dirty' = (dirty \/ probes.channel # <<>>)
    /\ dash' = [dash EXCEPT !.at = "input"]
    /\ UNCHANGED <<shots, link, ring60, view, screen>>

\* probe_tcp and try_send, in a task that runs while run_loop waits for a line
\* (the runtime has one thread); a full channel drops the sample.  A sample, be it a
\* connect time, Timeout or Failed, is told by its round.
ProbeEnds(i) ==
    /\ dash.at = "read" /\ i \in probes.flying
    /\ probes' = [probes EXCEPT !.flying = @ \ {i},
                    !.channel = IF Len(@) < SampleCap THEN Append(@, [row |-> i, sample |-> probes.rounds])
                                ELSE @]
    /\ UNCHANGED <<shots, link, dash, ring60, view, dirty, screen>>

\* reset_baseline: what was counted up to the last snapshot kept.
ResetBaseline ==
    IF ring60 = <<>> THEN view.baseline ELSE shots[ring60[Len(ring60)]]

\* Keys, and "other": a resize, and keys that only move about in the frame.
KeysThatDraw == {"pause", "clear", "other"}

\* handle_event: what a key makes of the view.
AfterKey(key) ==
    [view EXCEPT
        !.keys = @ + 1,
        !.paused = IF key = "pause" THEN ~@ ELSE @,
        !.baseline = IF key = "clear" THEN ResetBaseline ELSE @]

\* drain_input: one event after the other.
Press(key) ==
    /\ dash.at = "input" /\ view.keys < MaxKeys
    /\ view' = AfterKey(key)
    /\ dirty' = TRUE
    /\ UNCHANGED <<shots, link, dash, ring60, probes, screen>>

\* q and Ctrl-C, tried before the plain c that resets the session.
PressQuit ==
    /\ dash.at = "input"
    /\ Leave(0)
    /\ UNCHANGED <<shots, link, ring60, view, probes, dirty, screen>>

-----------------------------------------------------------------------------
(* render.rs: what a frame says *)

\* pairwise_rates and field_rate: bytes per period between two snapshots kept.
PairRate(i, a, b) ==
    IF b <= a \/ shots[b][i] < shots[a][i] THEN 0
    ELSE (shots[b][i] - shots[a][i]) \div (b - a)

\* render_detail_chart: one point per pair of neighbours in the ring; the table
\* shows the last.
Chart(i) == [k \in 1..(Len(ring60) - 1) |-> PairRate(i, ring60[k], ring60[k + 1])]

\* displayed_in: since the session was reset; nothing before the first snapshot.
Displayed(i) ==
    IF ring60 = <<>> THEN <<>>
    ELSE LET n == shots[ring60[Len(ring60)]][i]
         IN  <<IF n < view.baseline[i] THEN 0 ELSE n - view.baseline[i]>>

\* rtt_cell, and the active row of render_targets
Rtt(i) == IF Shown[i].proto = "udp" THEN 0 ELSE probes.samples[i]

Render == [i \in Rows |-> [rates |-> Chart(i), total |-> Displayed(i), rtt |-> Rtt(i)]]

\* The end of a turn: no event is left, and the frame is drawn if it may differ.
Draw ==
    /\ dash.at = "input"
    /\ dash' = [dash EXCEPT !.at = "read"]
    /\ IF dirty THEN screen' = Render /\ dirty' = FALSE ELSE UNCHANGED <<screen, dirty>>
    /\ UNCHANGED <<shots, link, ring60, view, probes>>

\* draw fails
DrawFails ==
    /\ dash.at = "input" /\ dirty
    /\ Leave(2)
    /\ UNCHANGED <<shots, link, ring60, view, probes, dirty, screen>>

-----------------------------------------------------------------------------
DashboardInit ==
    /\ shots = <<>>
    /\ link = [open |-> FALSE, half |-> FALSE, line |-> <<>>]
    /\ dash = [at |-> "start", code |-> 0]
    /\ ring60 = <<>>
    /\ view = [paused |-> FALSE, baseline |-> [i \in Rows |-> 0], keys |-> 0]
    /\ probes = [flying |-> {}, channel |-> <<>>, samples |-> [i \in Rows |-> 0], rounds |-> 0]
    /\ dirty = TRUE
    /\ screen = Render

DashboardNext ==
    \/ \E burst \in Bursts, split \in BOOLEAN : SendShot(burst, split)
    \/ SendRest \/ DaemonHangsUp
    \/ \E once, welcomed \in BOOLEAN : ConnectStats(once, welcomed)
    \/ Once \/ EnterTerminal \/ ReadLine \/ LineTimesOut \/ ReadEnds
    \/ \E due \in BOOLEAN : ProbeTurn(due)
    \/ \E i \in Rows : ProbeEnds(i)
    \/ \E key \in KeysThatDraw : Press(key)
    \/ PressQuit \/ Draw \/ DrawFails

DashboardSpec == DashboardInit /\ [][DashboardNext]_dashboardVars

-----------------------------------------------------------------------------
(* Properties *)

\* Drawing only what changed misses nothing: whenever run_loop waits for the next
\* line and no repaint is due, the terminal shows what would be drawn now.
ScreenCurrent == dash.at = "read" /\ ~dirty => screen = Render

\* A snapshot lost to a timeout or thrown away by a pause shows neither as a gap
\* nor as a spike: every rate drawn lies between the smallest and the largest
\* number of bytes one period really counted in the stretch it stands for.
CountedIn(i, p) == shots[p][i] - IF p = 1 THEN 0 ELSE shots[p - 1][i]
NoFalseSpike ==
    \A i \in Rows, k \in 1..(Len(ring60) - 1) :
        \E lo, hi \in (ring60[k] + 1)..ring60[k + 1] :
            CountedIn(i, lo) <= Chart(i)[k] /\ Chart(i)[k] <= CountedIn(i, hi)

\* The ring keeps the latest snapshots taken, in the order they were sent; a reset
\* of the session never lies ahead of them, so no total is cut off at zero.
RingSound ==
    /\ Len(ring60) <= Window60
    /\ \A k \in 1..(Len(ring60) - 1) : ring60[k] < ring60[k + 1]
    /\ ring60 # <<>> => \A i \in Rows : view.baseline[i] <= shots[ring60[Len(ring60)]][i]

DashboardSound == ScreenCurrent /\ NoFalseSpike /\ RingSound

\* The binary keeps its promises in both of its roles, daemon and dashboard.
StandaloneSound == DaemonSound /\ DashboardSound

=============================================================================
