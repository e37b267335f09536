---------------------------- MODULE ControlProofs ----------------------------
(***************************************************************************)
(* Proofs about the control plane around the rules, for every value of the *)
(* constants: the owner caps from the store to the forwarders, and the *)
(* onboarding of a client from the enrollment URI to a served session. *)
(***************************************************************************)
EXTENDS OwnerCaps, Onboarding, SequenceTheorems, TLAPS

----
(* Owner caps: the state's shape *)

Envelope == Caps \cup {NoCap}
CallStage == {"free", "cache", "push", "uncache", "unset", "count", "gc", "gcuncache"}
CallState == [at : CallStage, cap : Envelope, alone : BOOLEAN]
ChanState == [session : Nat, up : BOOLEAN, new : BOOLEAN, replay : {"none", "list", "send"}, held : Envelope]

CapTypeOK ==
    /\ capRow \in Envelope /\ capCache \in Envelope /\ enforced \in Envelope
    /\ caller \in [Callers -> CallState]
    /\ chan \in ChanState
    /\ frames \in Seq(Envelope)
    /\ dropped \in [by : {"nobody", "delete", "gc"}, session : Nat] /\ dropped.session <= chan.session
    /\ tangled \in BOOLEAN

Busy(c) == caller[c].at # "free"

\* A request marked alone is the only one, and no replay is under way.
CallerAlone == \A c \in Callers : Busy(c) /\ caller[c].alone =>
    ~Replaying /\ \A d \in Callers : Busy(d) => d = c
\* Whoever works while nothing is tangled works alone.
UntangledAlone == ~tangled => \A c \in Callers : Busy(c) => caller[c].alone

\* Row and cache as a PUT that runs alone leaves them.
PutProgress == \A c \in Callers : Busy(c) /\ caller[c].alone =>
    /\ caller[c].at \in {"cache", "push"} => caller[c].cap \in Caps /\ capRow = caller[c].cap
    /\ caller[c].at = "push" => capCache = caller[c].cap
\* Row and cache while nothing is tangled.
InStep == ~tangled =>
    /\ (\A c \in Callers : caller[c].at \in {"free", "count", "gc"}) => capCache = capRow
    /\ \A c \in Callers : caller[c].at \in {"uncache", "gcuncache", "unset"} => capRow = NoCap
    /\ \A c \in Callers : caller[c].at = "unset" => capCache = NoCap

\* What the client enforces once it has applied what is on its way.
Eventual == IF frames = <<>> THEN enforced ELSE frames[Len(frames)]

\* A replay under way carries what is stored.
ReplayCurrent == ~tangled /\ Replaying => chan.held = capRow /\ capRow # NoCap
\* The stored envelope reaches the client.
StoredArrives ==
    /\ ~tangled /\ chan.up /\ chan.new /\ chan.replay = "none" /\ capRow # NoCap
    /\ \A c \in Callers : caller[c].at \in {"free", "count", "gc"}
    => Eventual = capRow
\* A client that will enforce what is no longer stored missed its REMOVE.
StaleKnown ==
    /\ ~tangled /\ chan.up /\ capRow = NoCap /\ Eventual # NoCap
    /\ \A c \in Callers : caller[c].at \notin {"uncache", "unset"}
    => dropped.by = "gc" \/ dropped.session # chan.session

CapInv ==
    /\ CapTypeOK /\ CallerAlone /\ UntangledAlone /\ PutProgress /\ InStep
    /\ ReplayCurrent /\ StoredArrives /\ StaleKnown

----
LEMMA EventualAppend ==
    ASSUME NEW s \in Seq(Envelope), NEW e \in Envelope
    PROVE  /\ Append(s, e) \in Seq(Envelope) /\ Append(s, e) # <<>>
           /\ Append(s, e)[Len(Append(s, e))] = e
  BY DEF Envelope

LEMMA EventualApply ==
    ASSUME CapTypeOK, frames # <<>>, enforced' = Head(frames), frames' = Tail(frames)
    PROVE  enforced' \in Envelope /\ frames' \in Seq(Envelope) /\ Eventual' = Eventual
<1>1. frames \in Seq(Envelope) /\ Len(frames) \in Nat /\ Len(frames) # 0
 BY EmptySeq DEF CapTypeOK
<1>2. Head(frames) = frames[1] /\ frames[1] \in Envelope
 BY <1>1
<1>3. /\ Tail(frames) \in Seq(Envelope) /\ Len(Tail(frames)) = Len(frames) - 1
      /\ \A i \in 1..Len(Tail(frames)) : Tail(frames)[i] = frames[i + 1]
 BY <1>1
<1> USE <1>3
<1>4. CASE Len(frames) = 1
 <2>1. Tail(frames) = <<>>
  BY <1>1, <1>4, EmptySeq
 <2> QED BY <1>2, <1>4, <2>1 DEF Eventual
<1>5. CASE Len(frames) # 1
 <2>1. Len(Tail(frames)) \in 1..Len(Tail(frames)) /\ Len(Tail(frames)) + 1 = Len(frames)
  BY <1>1, <1>5
 <2>2. Tail(frames)[Len(Tail(frames))] = frames[Len(frames)] /\ Tail(frames) # <<>>
  BY <2>1, EmptySeq
 <2> QED BY <1>2, <2>2 DEF Eventual
<1> QED BY <1>4, <1>5

\* A slot that was free takes a request.
LEMMA CallBegins ==
    ASSUME CapInv, NEW c \in Callers, NEW step \in CallStage \ {"free"}, NEW cap \in Envelope, Begin(c, step, cap),
           chan' = chan
    PROVE  /\ caller' \in [Callers -> CallState]
           /\ caller'[c].at = step /\ caller'[c].cap = cap
           /\ \A d \in Callers : d # c => caller'[d].at = caller[d].at /\ ~caller'[d].alone
           /\ caller[c].at = "free" /\ tangled' \in BOOLEAN /\ tangled' = (tangled \/ ~AtRest)
           /\ CallerAlone' /\ UntangledAlone'
           /\ caller'[c].alone => \A d \in Callers : d # c => caller'[d].at = "free"
           /\ ~tangled' => (\A d \in Callers : caller[d].at = "free") /\ ~Replaying
<1>1. /\ caller[c] = Free /\ tangled' = (tangled \/ ~AtRest)
      /\ caller' = [d \in Callers |-> IF d = c THEN [at |-> step, cap |-> cap, alone |-> AtRest]
                                      ELSE [caller[d] EXCEPT !.alone = FALSE]]
 BY DEF Begin
<1>2. caller \in [Callers -> CallState] /\ tangled \in BOOLEAN /\ AtRest \in BOOLEAN
 BY DEF CapInv, CapTypeOK, AtRest
<1>3. \A s \in CallState : /\ [s EXCEPT !.alone = FALSE] \in CallState
                           /\ [s EXCEPT !.alone = FALSE].at = s.at
                           /\ ~[s EXCEPT !.alone = FALSE].alone
 BY DEF CallState
<1>4. [at |-> step, cap |-> cap, alone |-> AtRest] \in CallState
 BY <1>2 DEF CallState
<1>5. caller[c].at = "free"
 BY <1>1 DEF Free
<1>6. /\ caller'[c].at = step /\ caller'[c].cap = cap /\ caller'[c].alone = AtRest
      /\ \A d \in Callers : d # c => caller'[d].at = caller[d].at /\ ~caller'[d].alone
 BY <1>1, <1>2, <1>3
<1>7. caller' \in [Callers -> CallState]
 BY <1>1, <1>2, <1>3, <1>4
<1>8. AtRest => (\A d \in Callers : caller[d].at = "free") /\ ~Replaying
 BY DEF AtRest, Working
<1>9. Replaying' = Replaying
 BY DEF Replaying
<1> USE <1>6, <1>8
<1>10. CallerAlone'
 BY <1>9 DEF CallerAlone, Busy
<1>11. UntangledAlone'
 BY <1>1 DEF UntangledAlone, Busy
<1> QED BY <1>1, <1>2, <1>5, <1>7, <1>10, <1>11

\* One request moves on or ends; the others stay.
LEMMA CallMoves ==
    ASSUME CapInv, NEW c \in Callers, caller[c].at # "free", NEW step \in CallStage,
           IF step = "free" THEN Finish(c) ELSE StepTo(c, step),
           Replaying' = Replaying
    PROVE  /\ caller' \in [Callers -> CallState]
           /\ caller'[c].at = step
           /\ step # "free" => caller'[c].cap = caller[c].cap /\ caller'[c].alone = caller[c].alone
           /\ \A d \in Callers : d # c => caller'[d] = caller[d]
           /\ CallerAlone'
           /\ tangled' = tangled => UntangledAlone'
<1>1. caller \in [Callers -> CallState] /\ caller[c] \in CallState
 BY DEF CapInv, CapTypeOK
<1>2. Free \in CallState /\ Free.at = "free"
 BY DEF Free, CallState, CallStage, Envelope
<1>3. /\ [caller[c] EXCEPT !.at = step] \in CallState /\ [caller[c] EXCEPT !.at = step].at = step
      /\ [caller[c] EXCEPT !.at = step].cap = caller[c].cap
      /\ [caller[c] EXCEPT !.at = step].alone = caller[c].alone
 BY <1>1 DEF CallState
<1>4. /\ caller' \in [Callers -> CallState]
      /\ caller'[c].at = step
      /\ step # "free" => caller'[c].cap = caller[c].cap /\ caller'[c].alone = caller[c].alone
      /\ \A d \in Callers : d # c => caller'[d] = caller[d]
 <2>1. CASE step = "free"
  BY <1>1, <1>2, <2>1 DEF Finish
 <2>2. CASE step # "free"
  BY <1>1, <1>3, <2>2 DEF StepTo
 <2> QED BY <2>1, <2>2
<1>5. CallerAlone'
 BY <1>4 DEF CapInv, CallerAlone, Busy
<1>6. tangled' = tangled => UntangledAlone'
 BY <1>4 DEF CapInv, UntangledAlone, Busy
<1> QED BY <1>4, <1>5, <1>6

LEMMA CapTyped ==
    ASSUME CapInv
    PROVE  /\ CapTypeOK /\ chan \in ChanState
           /\ chan.session \in Nat /\ chan.up \in BOOLEAN /\ chan.held \in Envelope
           /\ dropped.session \in Nat
           /\ \A c \in Callers : caller[c] \in CallState /\ caller[c].cap \in Envelope /\ caller[c].at \in CallStage
  BY DEF CapInv, CapTypeOK, ChanState, CallState

\* A request that works while nothing is tangled, or that ran alone, has
\* the caps for itself.
LEMMA CallSolo ==
    ASSUME CapInv, NEW c \in Callers, caller[c].at # "free"
    PROVE  /\ ~tangled => caller[c].alone
           /\ caller[c].alone => ~Replaying /\ \A d \in Callers : d # c => caller[d].at = "free"
           /\ \A d \in Callers : caller[d].at # "free" /\ caller[d].alone => d = c
  BY DEF CapInv, UntangledAlone, CallerAlone, Busy

LEMMA PutCapKeeps ==
    ASSUME OwnerCapAssumption, CapInv, NEW c \in Callers, NEW cap \in Caps, PutCap(c, cap)
    PROVE  CapInv'
<1>1. /\ Begin(c, "cache", cap) /\ capRow' = cap
      /\ capCache' = capCache /\ enforced' = enforced /\ chan' = chan /\ frames' = frames /\ dropped' = dropped
 BY DEF PutCap
<1>2. "cache" \in CallStage \ {"free"} /\ cap \in Envelope /\ cap # NoCap
 BY DEF CallStage, Envelope, OwnerCapAssumption
<1> USE <1>1
<1>3. /\ caller' \in [Callers -> CallState]
      /\ caller'[c].at = "cache" /\ caller'[c].cap = cap
      /\ \A d \in Callers : d # c => caller'[d].at = caller[d].at /\ ~caller'[d].alone
      /\ tangled' \in BOOLEAN
      /\ CallerAlone' /\ UntangledAlone'
      /\ ~tangled' => (\A d \in Callers : caller[d].at = "free") /\ ~Replaying
 BY <1>2, CallBegins
<1> USE <1>3
<1>4. CapTypeOK'
 BY <1>2 DEF CapInv, CapTypeOK
<1>5. PutProgress'
 BY DEF PutProgress, Busy
<1>6. InStep'
 BY DEF InStep
<1>7. ReplayCurrent'
 BY DEF ReplayCurrent, Replaying
<1>8. StoredArrives' /\ StaleKnown'
 BY <1>2 DEF StoredArrives, StaleKnown
<1> QED BY <1>4, <1>5, <1>6, <1>7, <1>8 DEF CapInv

LEMMA PutCacheKeeps ==
    ASSUME CapInv, NEW c \in Callers, PutCache(c) PROVE CapInv'
<1>1. /\ caller[c].at = "cache" /\ StepTo(c, "push") /\ capCache' = caller[c].cap
      /\ capRow' = capRow /\ enforced' = enforced /\ chan' = chan /\ frames' = frames /\ dropped' = dropped
      /\ tangled' = tangled
 BY DEF PutCache
<1> USE <1>1
<1>2. "push" \in CallStage /\ Replaying' = Replaying /\ caller[c].cap \in Envelope
 BY CapTyped DEF CallStage, Replaying
<1>3. /\ caller' \in [Callers -> CallState]
      /\ caller'[c].at = "push" /\ caller'[c].cap = caller[c].cap /\ caller'[c].alone = caller[c].alone
      /\ \A d \in Callers : d # c => caller'[d] = caller[d]
      /\ CallerAlone' /\ UntangledAlone'
 BY <1>2, CallMoves
<1>4. /\ ~tangled => caller[c].alone
      /\ caller[c].alone => ~Replaying /\ \A d \in Callers : d # c => caller[d].at = "free"
      /\ \A d \in Callers : caller[d].at # "free" /\ caller[d].alone => d = c
 BY CallSolo
<1> USE <1>3
<1>5. CapTypeOK'
 BY <1>2 DEF CapInv, CapTypeOK
<1> USE <1>4
<1>6. PutProgress'
 BY DEF CapInv, PutProgress, Busy
<1>7. InStep'
 BY DEF InStep
<1>8. ReplayCurrent'
 BY <1>2 DEF ReplayCurrent
<1>9. StoredArrives'
 BY DEF StoredArrives
<1>10. ~tangled => capRow = caller[c].cap /\ caller[c].cap \in Caps
 BY DEF CapInv, PutProgress, Busy
<1>11. StaleKnown'
 BY Eventual' = Eventual DEF CapInv, StaleKnown, Eventual
<1> QED BY <1>5, <1>6, <1>7, <1>8, <1>9, <1>11 DEF CapInv

LEMMA PutPushKeeps ==
    ASSUME OwnerCapAssumption, CapInv, NEW c \in Callers, PutPush(c) PROVE CapInv'
<1>1. /\ caller[c].at = "push" /\ Finish(c) /\ frames' = Sent(caller[c].cap)
      /\ tangled' = (tangled /\ ~(caller[c].alone /\ chan.up))
      /\ capRow' = capRow /\ capCache' = capCache /\ enforced' = enforced /\ chan' = chan /\ dropped' = dropped
 BY DEF PutPush
<1> USE <1>1
<1>2. "free" \in CallStage /\ Replaying' = Replaying /\ caller[c].cap \in Envelope
 BY CapTyped DEF CallStage, Replaying
<1>3. /\ caller' \in [Callers -> CallState]
      /\ caller'[c].at = "free"
      /\ \A d \in Callers : d # c => caller'[d] = caller[d]
      /\ CallerAlone'
 BY <1>2, CallMoves
<1>4. /\ ~tangled => caller[c].alone
      /\ caller[c].alone => ~Replaying /\ \A d \in Callers : d # c => caller[d].at = "free"
      /\ \A d \in Callers : caller[d].at # "free" /\ caller[d].alone => d = c
 BY CallSolo
<1>5. ~tangled' => caller[c].alone /\ ~Replaying' /\ \A d \in Callers : caller'[d].at = "free"
 BY <1>2, <1>3, <1>4
<1>6. caller[c].alone => capRow = caller[c].cap /\ capCache = caller[c].cap /\ caller[c].cap # NoCap
 BY DEF CapInv, PutProgress, Busy, OwnerCapAssumption
<1>7. frames \in Seq(Envelope) /\ chan.up \in BOOLEAN
 BY CapTyped DEF CapTypeOK
<1>8. /\ Sent(caller[c].cap) \in Seq(Envelope)
      /\ chan.up => Sent(caller[c].cap) # <<>> /\ Sent(caller[c].cap)[Len(Sent(caller[c].cap))] = caller[c].cap
 BY <1>2, <1>7, EventualAppend DEF Sent
<1>9. chan.up => Eventual' = caller[c].cap
 BY <1>8 DEF Eventual
<1>10. CapTypeOK'
 BY <1>3, <1>8 DEF CapInv, CapTypeOK
<1>11. UntangledAlone' /\ ReplayCurrent'
 BY <1>5 DEF UntangledAlone, Busy, ReplayCurrent
<1>12. PutProgress'
 BY <1>3, <1>4 DEF PutProgress, Busy
<1> USE <1>5, <1>6
<1>13. InStep'
 BY DEF InStep
<1>14. StoredArrives'
 BY <1>9 DEF StoredArrives
<1>15. StaleKnown'
 BY DEF StaleKnown
<1> QED BY <1>3, <1>10, <1>11, <1>12, <1>13, <1>14, <1>15 DEF CapInv

LEMMA DeleteCapKeeps ==
    ASSUME CapInv, NEW c \in Callers, DeleteCap(c) PROVE CapInv'
<1> DEFINE step == IF capRow # NoCap THEN "uncache" ELSE "unset"
<1>1. /\ Begin(c, step, NoCap) /\ capRow' = NoCap
      /\ dropped' = IF capRow # NoCap THEN [by |-> "delete", session |-> 0] ELSE dropped
      /\ capCache' = capCache /\ enforced' = enforced /\ chan' = chan /\ frames' = frames
 BY DEF DeleteCap, DeleteRow
<1>2. step \in CallStage \ {"free"} /\ NoCap \in Envelope /\ step \in {"uncache", "unset"}
      /\ (step = "unset" => capRow = NoCap)
 BY DEF CallStage, Envelope
<1> HIDE DEF step
<1>3. /\ caller' \in [Callers -> CallState]
      /\ caller'[c].at = step
      /\ \A d \in Callers : d # c => caller'[d].at = caller[d].at /\ ~caller'[d].alone
      /\ tangled' \in BOOLEAN /\ tangled' = (tangled \/ ~AtRest)
      /\ CallerAlone' /\ UntangledAlone'
      /\ ~tangled' => (\A d \in Callers : caller[d].at = "free") /\ ~Replaying
 BY <1>1, <1>2, CallBegins
<1>4. dropped' \in [by : {"nobody", "delete", "gc"}, session : Nat] /\ dropped'.session <= chan'.session
 BY <1>1, CapTyped DEF CapTypeOK
<1> USE <1>3
<1>5. CapTypeOK'
 BY <1>1, <1>2, <1>4 DEF CapInv, CapTypeOK
<1>6. PutProgress'
 BY <1>2 DEF PutProgress, Busy
<1>7. ~tangled' => capCache = capRow
 BY DEF CapInv, InStep
<1>8. InStep'
 BY <1>1, <1>2, <1>7 DEF InStep
<1>9. ReplayCurrent'
 BY <1>1 DEF ReplayCurrent, Replaying
<1>10. StoredArrives' /\ StaleKnown'
 BY <1>1, <1>2 DEF StoredArrives, StaleKnown
<1> QED BY <1>5, <1>6, <1>8, <1>9, <1>10 DEF CapInv

LEMMA DeleteCacheKeeps ==
    ASSUME CapInv, NEW c \in Callers, DeleteCache(c) PROVE CapInv'
<1> DEFINE step == IF caller[c].at = "uncache" THEN "unset" ELSE "free"
<1>1. /\ caller[c].at \in {"uncache", "gcuncache"} /\ capCache' = NoCap
      /\ IF step = "free" THEN Finish(c) ELSE StepTo(c, step)
 BY DEF DeleteCache
<1>2. /\ capRow' = capRow /\ enforced' = enforced /\ chan' = chan /\ frames' = frames /\ dropped' = dropped
      /\ tangled' = tangled
 BY DEF DeleteCache
<1>3. step \in CallStage /\ Replaying' = Replaying /\ NoCap \in Envelope /\ step \in {"unset", "free"}
      /\ (step = "free" => caller[c].at = "gcuncache")
 BY <1>1, <1>2 DEF CallStage, Replaying, Envelope
<1> HIDE DEF step
<1>4. /\ caller' \in [Callers -> CallState]
      /\ caller'[c].at = step
      /\ \A d \in Callers : d # c => caller'[d] = caller[d]
      /\ CallerAlone' /\ UntangledAlone'
 BY <1>1, <1>2, <1>3, CallMoves
<1>5. /\ ~tangled => caller[c].alone
      /\ caller[c].alone => ~Replaying /\ \A d \in Callers : d # c => caller[d].at = "free"
      /\ \A d \in Callers : caller[d].at # "free" /\ caller[d].alone => d = c
 BY <1>1, CallSolo
<1>6. ~tangled => capRow = NoCap
 BY <1>1 DEF CapInv, InStep
<1> USE <1>2
<1>7. CapTypeOK'
 BY <1>1, <1>3, <1>4 DEF CapInv, CapTypeOK
<1>8. PutProgress'
 BY <1>3, <1>4, <1>5 DEF PutProgress, Busy
<1>9. InStep'
 BY <1>1, <1>6 DEF InStep
<1>10. ReplayCurrent'
 BY <1>3, <1>5 DEF ReplayCurrent
<1>11. StoredArrives'
 BY <1>6 DEF StoredArrives
<1>12. Eventual' = Eventual
 BY DEF Eventual
<1>13. StaleKnown'
 BY <1>1, <1>3, <1>4, <1>5, <1>12 DEF CapInv, StaleKnown
<1> QED BY <1>4, <1>7, <1>8, <1>9, <1>10, <1>11, <1>13 DEF CapInv

LEMMA DeletePushKeeps ==
    ASSUME CapInv, NEW c \in Callers, DeletePush(c) PROVE CapInv'
<1>1. /\ caller[c].at = "unset" /\ Finish(c) /\ frames' = Sent(NoCap)
      /\ dropped' = IF dropped.by = "delete" /\ chan.up THEN [dropped EXCEPT !.session = chan.session]
                    ELSE dropped
      /\ capRow' = capRow /\ capCache' = capCache /\ enforced' = enforced /\ chan' = chan /\ tangled' = tangled
 BY DEF DeletePush
<1> USE <1>1
<1>2. "free" \in CallStage /\ Replaying' = Replaying /\ NoCap \in Envelope
 BY DEF CallStage, Replaying, Envelope
<1>3. /\ caller' \in [Callers -> CallState]
      /\ caller'[c].at = "free"
      /\ \A d \in Callers : d # c => caller'[d] = caller[d]
      /\ CallerAlone' /\ UntangledAlone'
 BY <1>2, CallMoves
<1>4. /\ ~tangled => caller[c].alone
      /\ caller[c].alone => ~Replaying /\ \A d \in Callers : d # c => caller[d].at = "free"
      /\ \A d \in Callers : caller[d].at # "free" /\ caller[d].alone => d = c
 BY CallSolo
<1>5. ~tangled => capRow = NoCap /\ capCache = NoCap
 BY DEF CapInv, InStep
<1>6. frames \in Seq(Envelope)
 BY CapTyped DEF CapTypeOK
<1>7. /\ Sent(NoCap) \in Seq(Envelope)
      /\ chan.up => Sent(NoCap) # <<>> /\ Sent(NoCap)[Len(Sent(NoCap))] = NoCap
 BY <1>2, <1>6, EventualAppend DEF Sent
<1>8. chan.up => Eventual' = NoCap
 BY <1>7 DEF Eventual
<1>9. dropped' \in [by : {"nobody", "delete", "gc"}, session : Nat] /\ dropped'.session <= chan'.session
 BY CapTyped DEF CapTypeOK
<1>10. CapTypeOK'
 BY <1>3, <1>7, <1>9 DEF CapInv, CapTypeOK
<1>11. PutProgress'
 BY <1>3, <1>4 DEF PutProgress, Busy
<1>12. InStep'
 BY <1>5 DEF InStep
<1>13. ReplayCurrent'
 BY <1>2, <1>4 DEF ReplayCurrent
<1>14. StoredArrives' /\ StaleKnown'
 BY <1>5, <1>8 DEF StoredArrives, StaleKnown
<1> QED BY <1>3, <1>10, <1>11, <1>12, <1>13, <1>14 DEF CapInv

LEMMA RemoveOwnedKeeps ==
    ASSUME CapInv, NEW c \in Callers, RemoveOwned(c) PROVE CapInv'
<1>1. /\ Begin(c, "count", NoCap) /\ capRow' = capRow
      /\ capCache' = capCache /\ enforced' = enforced /\ chan' = chan /\ frames' = frames /\ dropped' = dropped
 BY DEF RemoveOwned
<1>2. "count" \in CallStage \ {"free"} /\ NoCap \in Envelope
 BY DEF CallStage, Envelope
<1> USE <1>1
<1>3. /\ caller' \in [Callers -> CallState]
      /\ caller'[c].at = "count"
      /\ \A d \in Callers : d # c => caller'[d].at = caller[d].at /\ ~caller'[d].alone
      /\ caller[c].at = "free"
      /\ tangled' \in BOOLEAN /\ tangled' = (tangled \/ ~AtRest)
      /\ CallerAlone' /\ UntangledAlone'
      /\ ~tangled' => (\A d \in Callers : caller[d].at = "free") /\ ~Replaying
 BY <1>2, CallBegins
<1> USE <1>3
<1>4. ~tangled' => ~tangled
 OBVIOUS
<1>5. CapTypeOK'
 BY DEF CapInv, CapTypeOK
<1>6. PutProgress'
 BY DEF PutProgress, Busy
<1>7. InStep'
 BY <1>4 DEF CapInv, InStep
<1>8. ReplayCurrent'
 BY DEF ReplayCurrent, Replaying
<1>9. Eventual' = Eventual
 BY DEF Eventual
<1>10. StoredArrives'
 BY <1>4, <1>9 DEF CapInv, StoredArrives
<1>11. StaleKnown'
 BY <1>4, <1>9 DEF CapInv, StaleKnown
<1> QED BY <1>5, <1>6, <1>7, <1>8, <1>10, <1>11 DEF CapInv

LEMMA CountOwnedKeeps ==
    ASSUME CapInv, NEW c \in Callers, CountOwned(c) PROVE CapInv'
<1> DEFINE step == IF owned > 0 THEN "free" ELSE "gc"
<1>1. /\ caller[c].at = "count"
      /\ IF step = "free" THEN Finish(c) ELSE StepTo(c, step)
 BY DEF CountOwned
<1>2. /\ capRow' = capRow /\ capCache' = capCache /\ enforced' = enforced /\ chan' = chan /\ frames' = frames
      /\ dropped' = dropped /\ tangled' = tangled
 BY DEF CountOwned
<1> USE <1>2
<1>3. step \in CallStage /\ Replaying' = Replaying /\ step \in {"gc", "free"}
 BY <1>1 DEF CallStage, Replaying
<1> HIDE DEF step
<1>4. /\ caller' \in [Callers -> CallState]
      /\ caller'[c].at = step
      /\ \A d \in Callers : d # c => caller'[d] = caller[d]
      /\ CallerAlone' /\ UntangledAlone'
 BY <1>1, <1>3, CallMoves
<1>5. \A d \in Callers : caller[d].at # "free" /\ caller[d].alone => d = c
 BY <1>1, CallSolo
<1> USE <1>4 DEF CapInv
<1>6. CapTypeOK'
 BY DEF CapTypeOK
<1> USE <1>3
<1>7. PutProgress'
 BY <1>5 DEF PutProgress, Busy
<1>8. InStep'
 BY <1>1 DEF InStep
<1>9. ReplayCurrent'
 BY DEF ReplayCurrent
<1>10. Eventual' = Eventual
 BY DEF Eventual
<1>11. StoredArrives'
 BY <1>1, <1>10 DEF StoredArrives
<1>12. StaleKnown'
 BY <1>1, <1>10 DEF StaleKnown
<1> QED BY <1>6, <1>7, <1>8, <1>9, <1>11, <1>12

LEMMA CollectCapKeeps ==
    ASSUME CapInv, NEW c \in Callers, CollectCap(c) PROVE CapInv'
<1> DEFINE step == IF capRow # NoCap THEN "gcuncache" ELSE "free"
<1>1. /\ caller[c].at = "gc" /\ capRow' = NoCap
      /\ IF step = "free" THEN Finish(c) ELSE StepTo(c, step)
      /\ dropped' = IF capRow # NoCap THEN [by |-> "gc", session |-> 0] ELSE dropped
 BY DEF CollectCap, DeleteRow
<1>2. /\ capCache' = capCache /\ enforced' = enforced /\ chan' = chan /\ frames' = frames /\ tangled' = tangled
 BY DEF CollectCap
<1>3. step \in CallStage /\ Replaying' = Replaying /\ NoCap \in Envelope /\ step \in {"gcuncache", "free"}
      /\ (step = "free" <=> capRow = NoCap)
 BY <1>1, <1>2 DEF CallStage, Replaying, Envelope
<1> HIDE DEF step
<1>4. /\ caller' \in [Callers -> CallState]
      /\ caller'[c].at = step
      /\ \A d \in Callers : d # c => caller'[d] = caller[d]
      /\ CallerAlone' /\ UntangledAlone'
 BY <1>1, <1>2, <1>3, CallMoves
<1>5. /\ ~tangled => caller[c].alone
      /\ caller[c].alone => ~Replaying /\ \A d \in Callers : d # c => caller[d].at = "free"
      /\ \A d \in Callers : caller[d].at # "free" /\ caller[d].alone => d = c
 BY <1>1, CallSolo
<1>6. dropped' \in [by : {"nobody", "delete", "gc"}, session : Nat] /\ dropped'.session <= chan'.session
      /\ (capRow # NoCap => dropped'.by = "gc")
 BY <1>1, <1>2, CapTyped DEF CapTypeOK
<1>7. CapTypeOK'
 BY <1>1, <1>2, <1>3, <1>4, <1>6 DEF CapInv, CapTypeOK
<1>8. PutProgress'
 BY <1>3, <1>4, <1>5 DEF PutProgress, Busy
<1>9. InStep'
 <2>1. ~tangled => capCache = capRow
  BY <1>1, <1>5 DEF CapInv, InStep
 <2> QED BY <1>1, <1>2, <1>3, <1>4, <1>5, <2>1 DEF InStep
<1>10. ReplayCurrent'
 BY <1>2, <1>3, <1>5 DEF ReplayCurrent
<1>11. StoredArrives'
 BY <1>1 DEF StoredArrives
<1>12. Eventual' = Eventual
 BY <1>2 DEF Eventual
<1>13. StaleKnown'
 <2>1. CASE capRow # NoCap
  BY <1>6, <2>1 DEF StaleKnown
 <2>2. CASE capRow = NoCap
  BY <1>1, <1>2, <1>3, <1>4, <1>12, <2>2 DEF CapInv, StaleKnown
 <2> QED BY <2>1, <2>2
<1> QED BY <1>4, <1>7, <1>8, <1>9, <1>10, <1>11, <1>13 DEF CapInv

LEMMA LinkUpKeeps ==
    ASSUME CapInv, NEW new \in BOOLEAN, LinkUp(new) PROVE CapInv'
<1>1. /\ chan' = [session |-> chan.session + 1, up |-> TRUE, new |-> new, replay |-> "list", held |-> NoCap]
      /\ frames' = <<>>
      /\ capRow' = capRow /\ capCache' = capCache /\ enforced' = enforced /\ caller' = caller
      /\ dropped' = dropped /\ tangled' = tangled
 BY DEF LinkUp
<1>2. chan.session \in Nat /\ dropped.session \in Nat /\ dropped.session <= chan.session
 BY CapTyped DEF CapTypeOK
<1>3. /\ chan' \in ChanState /\ chan'.session = chan.session + 1 /\ chan'.replay = "list"
 BY <1>1, <1>2 DEF ChanState, Envelope
<1>4. dropped.session <= chan'.session /\ dropped.session # chan'.session
 BY <1>2, <1>3
<1>5. CapTypeOK'
 BY <1>1, <1>3, <1>4 DEF CapInv, CapTypeOK
<1>6. ~Replaying'
 BY <1>3 DEF Replaying
<1>7. CallerAlone' /\ UntangledAlone' /\ PutProgress' /\ InStep'
 BY <1>1, <1>6 DEF CapInv, CallerAlone, UntangledAlone, PutProgress, InStep, Busy
<1>8. ReplayCurrent' /\ StoredArrives'
 BY <1>3, <1>6 DEF ReplayCurrent, StoredArrives
<1>9. StaleKnown'
 BY <1>1, <1>4 DEF StaleKnown
<1> QED BY <1>5, <1>7, <1>8, <1>9 DEF CapInv

\* The session is gone: nothing is on its way and no replay is under way.
LEMMA LinkGone ==
    ASSUME CapInv, chan' = [chan EXCEPT !.up = FALSE, !.replay = "none", !.held = NoCap]
    PROVE  chan' \in ChanState /\ chan'.session = chan.session /\ ~chan'.up /\ ~Replaying'
<1>1. chan \in ChanState
 BY CapTyped
<1>2. chan' \in ChanState /\ chan'.session = chan.session /\ ~chan'.up /\ chan'.replay = "none"
 BY <1>1 DEF ChanState, Envelope
<1> QED BY <1>2 DEF Replaying

LEMMA LinkDownKeeps ==
    ASSUME CapInv, LinkDown PROVE CapInv'
<1>1. /\ chan' = [chan EXCEPT !.up = FALSE, !.replay = "none", !.held = NoCap]
      /\ frames' = <<>>
      /\ capRow' = capRow /\ capCache' = capCache /\ enforced' = enforced /\ caller' = caller
      /\ dropped' = dropped /\ tangled' = tangled
 BY DEF LinkDown
<1>2. chan' \in ChanState /\ chan'.session = chan.session /\ ~chan'.up /\ ~Replaying'
 BY <1>1, LinkGone
<1> USE <1>2 DEF CapInv
<1>3. CapTypeOK'
 BY <1>1 DEF CapTypeOK
<1>4. CallerAlone' /\ UntangledAlone' /\ PutProgress' /\ InStep'
 BY <1>1 DEF CallerAlone, UntangledAlone, PutProgress, InStep, Busy
<1>5. ReplayCurrent' /\ StoredArrives' /\ StaleKnown'
 BY DEF ReplayCurrent, StoredArrives, StaleKnown
<1> QED BY <1>3, <1>4, <1>5

LEMMA ServerRestartsKeeps ==
    ASSUME CapInv, ServerRestarts PROVE CapInv'
<1>1. /\ chan' = [chan EXCEPT !.up = FALSE, !.replay = "none", !.held = NoCap]
      /\ frames' = <<>> /\ capCache' = capRow /\ caller' = [c \in Callers |-> Free]
      /\ capRow' = capRow /\ enforced' = enforced /\ dropped' = dropped /\ tangled' = tangled
 BY DEF ServerRestarts
<1>2. chan' \in ChanState /\ chan'.session = chan.session /\ ~chan'.up /\ ~Replaying'
 BY <1>1, LinkGone
<1>3. Free \in CallState /\ Free.at = "free"
 BY DEF Free, CallState, CallStage, Envelope
<1>4. caller' \in [Callers -> CallState] /\ \A c \in Callers : caller'[c].at = "free"
 BY <1>1, <1>3
<1>5. CapTypeOK'
 BY <1>1, <1>2, <1>4 DEF CapInv, CapTypeOK
<1>6. CallerAlone' /\ UntangledAlone' /\ PutProgress' /\ InStep'
 BY <1>1, <1>4 DEF CallerAlone, UntangledAlone, PutProgress, InStep, Busy
<1>7. ReplayCurrent' /\ StoredArrives' /\ StaleKnown'
 BY <1>2 DEF ReplayCurrent, StoredArrives, StaleKnown
<1> QED BY <1>5, <1>6, <1>7 DEF CapInv

LEMMA ReplayListsKeeps ==
    ASSUME CapInv, ReplayLists PROVE CapInv'
<1> DEFINE on == IF chan.new /\ capCache # NoCap THEN "send" ELSE "none"
<1>1. /\ chan' = [chan EXCEPT !.replay = on, !.held = capCache]
      /\ caller' = [d \in Callers |-> [caller[d] EXCEPT !.alone = FALSE]]
      /\ tangled' = (tangled \/ Working # {})
      /\ capRow' = capRow /\ capCache' = capCache /\ enforced' = enforced
      /\ frames' = frames /\ dropped' = dropped
 BY DEF ReplayLists
<1>2. on \in {"none", "send"} /\ (on = "send" => capCache # NoCap)
      /\ (on = "none" /\ chan.new => capCache = NoCap)
 OBVIOUS
<1> HIDE DEF on
<1>3. chan \in ChanState /\ capCache \in Envelope
 BY CapTyped DEF CapTypeOK
<1> USE <1>1
<1>4. /\ chan' \in ChanState /\ chan'.session = chan.session /\ chan'.replay = on /\ chan'.held = capCache
      /\ chan'.new = chan.new /\ chan'.up = chan.up
 BY <1>2, <1>3 DEF ChanState
<1>5. \A s \in CallState : /\ [s EXCEPT !.alone = FALSE] \in CallState
                           /\ [s EXCEPT !.alone = FALSE].at = s.at
                           /\ ~[s EXCEPT !.alone = FALSE].alone
 BY DEF CallState
<1>6. /\ caller' \in [Callers -> CallState]
      /\ \A d \in Callers : caller'[d].at = caller[d].at /\ ~caller'[d].alone
 BY <1>5, CapTyped
<1>7. ~tangled' => ~tangled /\ \A d \in Callers : caller[d].at = "free"
 BY DEF Working
<1>8. ~tangled' => capCache = capRow
 BY <1>7 DEF CapInv, InStep
<1>9. CapTypeOK'
 <2>1. tangled' \in BOOLEAN
  BY DEF CapInv, CapTypeOK
 <2> QED BY <1>4, <1>6, <2>1 DEF CapInv, CapTypeOK
<1>10. CallerAlone' /\ UntangledAlone' /\ PutProgress'
 BY <1>6, <1>7 DEF CallerAlone, UntangledAlone, PutProgress, Busy
<1>11. InStep'
 BY <1>6, <1>7, <1>8 DEF InStep
<1>12. ReplayCurrent'
 BY <1>2, <1>4, <1>8 DEF ReplayCurrent, Replaying
<1>13. StoredArrives'
 BY <1>2, <1>4, <1>8 DEF StoredArrives
<1>14. Eventual' = Eventual
 BY DEF Eventual
<1>15. StaleKnown'
 BY <1>4, <1>6, <1>7, <1>14 DEF CapInv, StaleKnown
<1> QED BY <1>9, <1>10, <1>11, <1>12, <1>13, <1>15 DEF CapInv

LEMMA ReplaySendsKeeps ==
    ASSUME CapInv, ReplaySends PROVE CapInv'
<1>1. /\ Replaying /\ frames' = Append(frames, chan.held)
      /\ chan' = [chan EXCEPT !.replay = "none", !.held = NoCap]
      /\ capRow' = capRow /\ capCache' = capCache /\ enforced' = enforced /\ caller' = caller
      /\ dropped' = dropped /\ tangled' = tangled
 BY DEF ReplaySends
<1>2. chan \in ChanState /\ frames \in Seq(Envelope) /\ chan.held \in Envelope
 BY CapTyped DEF CapTypeOK
<1> USE <1>1
<1>3. chan' \in ChanState /\ chan'.session = chan.session /\ chan'.replay = "none" /\ chan'.up = chan.up
 BY <1>2 DEF ChanState, Envelope
<1>4. frames' \in Seq(Envelope) /\ Eventual' = chan.held
 BY <1>2, EventualAppend DEF Eventual
<1>5. ~tangled => chan.held = capRow /\ capRow # NoCap
 BY DEF CapInv, ReplayCurrent
<1>6. CapTypeOK'
 BY <1>3, <1>4 DEF CapInv, CapTypeOK
<1>7. ~Replaying'
 BY <1>3 DEF Replaying
<1>8. CallerAlone' /\ UntangledAlone' /\ PutProgress' /\ InStep'
 BY <1>7 DEF CapInv, CallerAlone, UntangledAlone, PutProgress, InStep, Busy
<1>9. ReplayCurrent' /\ StoredArrives' /\ StaleKnown'
 BY <1>4, <1>5, <1>7 DEF ReplayCurrent, StoredArrives, StaleKnown
<1> QED BY <1>6, <1>8, <1>9 DEF CapInv

LEMMA ApplyCapKeeps ==
    ASSUME CapInv, ApplyCap PROVE CapInv'
<1>1. /\ frames # <<>> /\ enforced' = Head(frames) /\ frames' = Tail(frames)
      /\ capRow' = capRow /\ capCache' = capCache /\ caller' = caller /\ chan' = chan
      /\ dropped' = dropped /\ tangled' = tangled
 BY DEF ApplyCap
<1> USE <1>1
<1>2. enforced' \in Envelope /\ frames' \in Seq(Envelope) /\ Eventual' = Eventual
 BY CapTyped, EventualApply
<1> USE DEF CapInv
<1>3. CapTypeOK'
 BY <1>2 DEF CapTypeOK
<1>4. Replaying' = Replaying
 BY DEF Replaying
<1>5. CallerAlone' /\ UntangledAlone' /\ PutProgress' /\ InStep' /\ ReplayCurrent'
 BY <1>4 DEF CallerAlone, UntangledAlone, PutProgress, InStep, Busy, ReplayCurrent
<1>6. StoredArrives' /\ StaleKnown'
 BY <1>2 DEF StoredArrives, StaleKnown
<1> QED BY <1>3, <1>5, <1>6

LEMMA ClientRestartsKeeps ==
    ASSUME CapInv, ClientRestarts PROVE CapInv'
<1>1. /\ ~chan.up /\ enforced' = NoCap
      /\ capRow' = capRow /\ capCache' = capCache /\ caller' = caller /\ chan' = chan /\ frames' = frames
      /\ dropped' = dropped /\ tangled' = tangled
 BY DEF ClientRestarts
<1>2. CapTypeOK'
 BY <1>1 DEF CapInv, CapTypeOK, Envelope
<1>3. Replaying' = Replaying
 BY <1>1 DEF Replaying
<1>4. CallerAlone' /\ UntangledAlone' /\ PutProgress' /\ InStep' /\ ReplayCurrent'
 BY <1>1, <1>3 DEF CapInv, CallerAlone, UntangledAlone, PutProgress, InStep, Busy, ReplayCurrent
<1>5. StoredArrives' /\ StaleKnown'
 BY <1>1 DEF StoredArrives, StaleKnown
<1> QED BY <1>2, <1>4, <1>5 DEF CapInv

\* A step that touches neither the caps nor the requests.
LEMMA CapsUntouched ==
    ASSUME CapInv,
           UNCHANGED <<capRow, capCache, enforced, caller, chan, frames, dropped, tangled>>
    PROVE  CapInv'
  BY DEF CapInv, CapTypeOK, CallerAlone, UntangledAlone, PutProgress, InStep, Busy, ReplayCurrent,
   StoredArrives, StaleKnown, Eventual, Replaying

LEMMA CapStarts ==
    ASSUME CapInit PROVE CapInv
<1>1. /\ capRow = NoCap /\ capCache = NoCap /\ enforced = NoCap
      /\ caller = [c \in Callers |-> Free]
      /\ chan = [session |-> 0, up |-> FALSE, new |-> FALSE, replay |-> "none", held |-> NoCap]
      /\ frames = <<>>
      /\ dropped = [by |-> "nobody", session |-> 0]
      /\ tangled = FALSE
 BY DEF CapInit
<1>2. Free \in CallState /\ Free.at = "free"
 BY DEF Free, CallState, CallStage, Envelope
<1> USE <1>1
<1>3. caller \in [Callers -> CallState] /\ \A c \in Callers : caller[c].at = "free"
 BY <1>2
<1>4. chan \in ChanState /\ dropped \in [by : {"nobody", "delete", "gc"}, session : Nat]
      /\ dropped.session <= chan.session /\ ~chan.up /\ chan.replay = "none"
 BY DEF ChanState, Envelope
<1>5. CapTypeOK
 <2>1. NoCap \in Envelope /\ tangled \in BOOLEAN
  BY DEF Envelope
 <2>2. frames \in Seq(Envelope)
  BY EmptySeq
 <2> QED BY <1>3, <1>4, <2>1, <2>2 DEF CapTypeOK
<1>6. CallerAlone /\ UntangledAlone /\ PutProgress /\ InStep
 BY <1>3 DEF CallerAlone, UntangledAlone, PutProgress, InStep, Busy
<1>7. ReplayCurrent /\ StoredArrives /\ StaleKnown
 BY <1>4 DEF ReplayCurrent, Replaying, StoredArrives, StaleKnown
<1> QED BY <1>5, <1>6, <1>7 DEF CapInv

LEMMA CapNextKeeps ==
    ASSUME OwnerCapAssumption, CapInv, [CapNext]_capVars PROVE CapInv'
<1>1. CASE UNCHANGED capVars
 BY <1>1, CapsUntouched DEF capVars
<1>2. CASE PushOwned
 BY <1>2, CapsUntouched DEF PushOwned
<1>3. CASE LinkDown \/ ReplayLists \/ ReplaySends \/ ApplyCap \/ ClientRestarts \/ ServerRestarts
 BY <1>3, LinkDownKeeps, ReplayListsKeeps, ReplaySendsKeeps, ApplyCapKeeps, ClientRestartsKeeps,
  ServerRestartsKeeps
<1>4. CASE \E new \in BOOLEAN : LinkUp(new)
 BY <1>4, LinkUpKeeps
<1>5. ASSUME NEW c \in Callers,
             \/ PutCache(c) \/ PutPush(c) \/ DeleteCap(c) \/ DeleteCache(c) \/ DeletePush(c)
             \/ RemoveOwned(c) \/ CountOwned(c) \/ CollectCap(c)
      PROVE  CapInv'
 BY <1>5, PutCacheKeeps, PutPushKeeps, DeleteCapKeeps, DeleteCacheKeeps, DeletePushKeeps,
  RemoveOwnedKeeps, CountOwnedKeeps, CollectCapKeeps
<1>6. CASE \E c \in Callers : \E cap \in Caps : PutCap(c, cap)
 BY <1>6, PutCapKeeps
<1> QED BY <1>1, <1>2, <1>3, <1>4, <1>5, <1>6 DEF CapNext

\* What the invariant says of a moment at rest.
LEMMA CapInvGives ==
    ASSUME CapInv PROVE OwnerCapsSound
<1>1. AtRest => \A c \in Callers : caller[c].at = "free"
 BY DEF AtRest, Working
<1> USE <1>1 DEF CapInv
<1>2. CacheInStep
 BY DEF InStep, CacheInStep
<1>3. StoredIsEnforced
 BY DEF StoredArrives, Eventual, StoredIsEnforced
<1>4. DeleteTakesEffect
 BY DEF StaleKnown, Eventual, DeleteTakesEffect
<1> QED BY <1>2, <1>3, <1>4 DEF OwnerCapsSound

\* For every number of requests, envelopes, sessions and rules: between
\* requests that did not overlap, the cache answers what SQLite holds, a
\* connected 0.11 client that has applied its frames enforces the stored
\* envelope, and none once it was told of the DELETE
\* (owner.rs, operator/owner_cap.rs).
THEOREM OwnerCapsCorrect == CapSpec => []OwnerCapsSound
<1>1. CapInit => CapInv
 BY CapStarts
<1>2. CapInv /\ [CapNext]_capVars => CapInv'
 BY CapNextKeeps, OwnerCapAssumption
<1>3. CapInv => OwnerCapsSound
 BY CapInvGives
<1> QED BY <1>1, <1>2, <1>3, PTL DEF CapSpec

----
(* Onboarding *)

NetHost == NetHosts \cup {Loopback}
CodeIds == 1..MaxUris
Uri == [endpoint : Endpoint, pin : Nat, code : CodeIds]
Ticket == [state : {"unused", "open", "spent", "expired"}, endpoint : Endpoint \cup {NoEndpoint}]
MachineStage == {"off", "dialed", "issued", "writing", "trying", "connected", "gaveUp"}
MachineState ==
    [at : MachineStage, uri : Uri \cup {NoEndpoint}, boot : BOOLEAN, held : ClientBundle \cup {NoBundle}]
\* The stages a process holds a bundle in.
Holding == {"issued", "writing", "trying", "connected", "gaveUp"}

OnboardTypeOK ==
    /\ cert \in [pin : Nat, baked : NetHost \cup {NoEndpoint}]
    /\ certs \in Seq(SUBSET (NetHost \cup {NoEndpoint}))
    /\ seed \in Endpoint \cup {NoEndpoint} /\ override \in Endpoint \cup {NoEndpoint}
    /\ ticket \in [CodeIds -> Ticket]
    /\ uris \subseteq Uri
    /\ bearer \in [n : Nat, revoked : BOOLEAN]
    /\ machine \in [Machines -> MachineState]
    /\ bundle \in [Machines -> ClientBundle \cup {NoBundle, TornBundle}]

\* The certificate served is the last one made.
CertCurrent == cert.pin = Len(certs) /\ cert.pin >= 1 /\ certs[cert.pin] = Sans(cert.baked)

\* An endpoint a certificate made so far covers.
Usable(e, pin) == pin \in 1..Len(certs) /\ EndpointCovered(e, pin)

\* A printed URI and the row of its code.
UrisMatch ==
    \A u \in uris :
        /\ ticket[u.code].state # "unused"
        /\ ticket[u.code].endpoint # NoEndpoint =>
              ticket[u.code].endpoint = u.endpoint /\ Usable(u.endpoint, u.pin)

IsBundle(b) == b \in ClientBundle
BundleFine(b) == IsBundle(b) => Usable(b.endpoint, b.pin) /\ b.token <= bearer.n

MachineFine(m) ==
    /\ machine[m].at = "dialed" => machine[m].uri \in uris /\ machine[m].uri.pin = cert.pin
    /\ machine[m].at \in Holding => IsBundle(machine[m].held) /\ BundleFine(machine[m].held)
    /\ machine[m].at = "issued" /\ IsBundle(bundle[m]) => bundle[m].token < machine[m].held.token
    /\ machine[m].at = "writing" => bundle[m] = TornBundle
    /\ machine[m].at = "gaveUp" /\ m \notin misread => ~VerifyBearer(machine[m].held.token)

\* The current token is with this machine.
TokenAt(m) ==
    \/ IsBundle(bundle[m]) /\ bundle[m].token = bearer.n
    \/ machine[m].at \in {"issued", "writing"} /\ machine[m].held.token = bearer.n
TokenSomewhere == bearer.n # 0 => bearer.n \in stranded \/ \E m \in Machines : TokenAt(m)

OnboardInv ==
    /\ OnboardTypeOK /\ CertCurrent /\ UrisMatch
    /\ \A m \in Machines : BundleFine(bundle[m]) /\ MachineFine(m)
    /\ TokenSomewhere

----
LEMMA OnboardTyped ==
    ASSUME OnboardInv
    PROVE  /\ cert.pin \in Nat /\ certs \in Seq(SUBSET (NetHost \cup {NoEndpoint}))
           /\ seed \in Endpoint \cup {NoEndpoint} /\ override \in Endpoint \cup {NoEndpoint}
           /\ ticket \in [CodeIds -> Ticket] /\ uris \subseteq Uri
           /\ bearer.n \in Nat /\ bearer.revoked \in BOOLEAN
           /\ machine \in [Machines -> MachineState]
           /\ bundle \in [Machines -> ClientBundle \cup {NoBundle, TornBundle}]
           /\ \A m \in Machines : MachineFine(m) /\ BundleFine(bundle[m])
  BY DEF OnboardInv, OnboardTypeOK

LEMMA AsleepShape ==
    /\ Asleep \in MachineState /\ Asleep.at = "off"
    /\ Asleep.held = NoBundle
  BY DEF Asleep, MachineState, MachineStage

\* Nothing but machine m, its bundle and the histories moved.
LEMMA OthersFine ==
    ASSUME OnboardInv, NEW m \in Machines, NEW x \in Machines, x # m,
           cert' = cert, certs' = certs, uris' = uris, bearer' = bearer,
           machine'[x] = machine[x], bundle'[x] = bundle[x], x \in misread' <=> x \in misread
    PROVE  BundleFine(bundle[x])' /\ MachineFine(x)' /\ (TokenAt(x)' <=> TokenAt(x))
<1>1. BundleFine(bundle[x]) /\ MachineFine(x)
 BY DEF OnboardInv
<1> QED BY <1>1 DEF BundleFine, MachineFine, Usable, EndpointCovered, VerifyBearer, TokenAt

\* The parts a step of one machine leaves alone.
LEMMA SettingsUntouched ==
    ASSUME OnboardInv, UNCHANGED <<settingVars, storeVars>> PROVE CertCurrent' /\ UrisMatch'
  BY DEF OnboardInv, settingVars, storeVars, CertCurrent, UrisMatch, Usable, EndpointCovered

\* A step of one machine that changes no store and leaves the token where it
\* was, or says that it was lost.
LEMMA MachineSteps ==
    ASSUME OnboardInv, NEW m \in Machines, NEW next \in MachineState, Sets(m, next),
           UNCHANGED <<settingVars, storeVars>>,
           bundle' \in [Machines -> ClientBundle \cup {NoBundle, TornBundle}],
           \A x \in Machines : x # m => bundle'[x] = bundle[x],
           \A x \in Machines : x # m => (x \in misread' <=> x \in misread),
           stranded \subseteq stranded',
           BundleFine(bundle[m])', MachineFine(m)',
           TokenAt(m) => TokenAt(m)' \/ bearer.n \in stranded'
    PROVE  OnboardInv'
<1>1. /\ cert' = cert /\ certs' = certs /\ seed' = seed /\ override' = override
      /\ ticket' = ticket /\ uris' = uris /\ bearer' = bearer
 BY DEF settingVars, storeVars
<1>2. /\ machine' \in [Machines -> MachineState] /\ machine'[m] = next
      /\ \A x \in Machines : x # m => machine'[x] = machine[x]
 BY OnboardTyped DEF Sets
<1>3. \A x \in Machines : x # m => BundleFine(bundle[x])' /\ MachineFine(x)' /\ (TokenAt(x)' <=> TokenAt(x))
 BY <1>1, <1>2, OthersFine
<1>4. OnboardTypeOK'
 BY <1>1, <1>2 DEF OnboardInv, OnboardTypeOK
<1>5. CertCurrent' /\ UrisMatch'
 BY SettingsUntouched
<1>6. \A x \in Machines : BundleFine(bundle[x])' /\ MachineFine(x)'
 BY <1>3
<1>7. TokenSomewhere'
 <2>1. bearer'.n = bearer.n
  BY <1>1
 <2>2. \A x \in Machines : TokenAt(x) => TokenAt(x)' \/ bearer.n \in stranded'
  BY <1>3
 <2> QED BY <2>1, <2>2 DEF OnboardInv, TokenSomewhere
<1> QED BY <1>4, <1>5, <1>6, <1>7 DEF OnboardInv

LEMMA EnrollKeeps ==
    ASSUME OnboardInv, NEW m \in Machines, NEW uri \in uris, NEW boot \in BOOLEAN, Enroll(m, uri, boot)
    PROVE  OnboardInv'
<1> DEFINE next == [Asleep EXCEPT !.at = "dialed", !.uri = uri, !.boot = boot]
<1>1. /\ machine[m] = Asleep /\ uri.pin = cert.pin /\ Sets(m, next)
      /\ UNCHANGED <<settingVars, storeVars>> /\ bundle' = bundle /\ stranded' = stranded /\ misread' = misread
 BY DEF Enroll, Handshake
<1>2. uri \in Uri
 BY OnboardTyped
<1>3. next \in MachineState /\ next.at = "dialed" /\ next.uri = uri
 BY <1>2, AsleepShape DEF MachineState, MachineStage
<1> HIDE DEF next
<1> USE <1>1
<1>4. /\ cert' = cert /\ certs' = certs /\ uris' = uris /\ bearer' = bearer
 BY DEF settingVars, storeVars
<1>5. machine'[m] = next
 BY OnboardTyped DEF Sets
<1>6. MachineFine(m)'
 BY <1>3, <1>4, <1>5 DEF MachineFine, Holding
<1>7. BundleFine(bundle[m])'
 BY <1>4, OnboardTyped DEF BundleFine, Usable, EndpointCovered
<1>8. machine[m].at = "off"
 BY AsleepShape
<1>9. TokenAt(m) => TokenAt(m)'
 BY <1>4, <1>8 DEF TokenAt
<1> QED BY <1>3, <1>6, <1>7, <1>9, OnboardTyped, MachineSteps

LEMMA OpenBundleKeeps ==
    ASSUME OnboardingAssumption, OnboardInv, NEW m \in Machines, OpenBundle(m) PROVE OnboardInv'
<1> DEFINE next == [machine[m] EXCEPT !.at = "writing"]
<1>1. /\ machine[m].at = "issued" /\ bundle' = [bundle EXCEPT ![m] = TornBundle] /\ Sets(m, next)
      /\ UNCHANGED <<settingVars, storeVars>> /\ stranded' = stranded /\ misread' = misread
 BY DEF OpenBundle
<1>2. next \in MachineState /\ next.at = "writing" /\ next.held = machine[m].held
 BY OnboardTyped DEF MachineState, MachineStage
<1> HIDE DEF next
<1>3. /\ cert' = cert /\ certs' = certs /\ uris' = uris /\ bearer' = bearer
 BY <1>1 DEF settingVars, storeVars
<1>4. machine'[m] = next
 BY <1>1, OnboardTyped DEF Sets
<1>5. /\ bundle' \in [Machines -> ClientBundle \cup {NoBundle, TornBundle}] /\ bundle'[m] = TornBundle
      /\ \A x \in Machines : x # m => bundle'[x] = bundle[x]
 BY <1>1, OnboardTyped
<1>6. ~IsBundle(TornBundle)
 BY DEF IsBundle, OnboardingAssumption
<1>7. BundleFine(bundle[m])'
 BY <1>5, <1>6 DEF BundleFine, IsBundle
<1>8. IsBundle(machine[m].held) /\ BundleFine(machine[m].held)
 BY <1>1, OnboardTyped DEF MachineFine, Holding
<1>9. MachineFine(m)'
 BY <1>2, <1>3, <1>4, <1>5, <1>8 DEF MachineFine, Holding, BundleFine, IsBundle, Usable,
  EndpointCovered
<1>10. TokenAt(m) => TokenAt(m)'
 <2>1. CASE IsBundle(bundle[m]) /\ bundle[m].token = bearer.n
  <3>1. bundle[m].token < machine[m].held.token
   BY <1>1, <2>1, OnboardTyped DEF MachineFine
  <3>2. machine[m].held.token <= bearer.n /\ machine[m].held.token \in Nat /\ bearer.n \in Nat
   BY <1>8, OnboardTyped DEF BundleFine, IsBundle, ClientBundle
  <3> QED BY <2>1, <3>1, <3>2
 <2>2. CASE machine[m].held.token = bearer.n
  BY <1>2, <1>3, <1>4, <2>2 DEF TokenAt
 <2> QED BY <2>1, <2>2 DEF TokenAt
<1> QED BY <1>1, <1>2, <1>5, <1>7, <1>9, <1>10, MachineSteps

LEMMA WriteBundleKeeps ==
    ASSUME OnboardingAssumption, OnboardInv, NEW m \in Machines, WriteBundle(m) PROVE OnboardInv'
<1> DEFINE next == IF machine[m].boot THEN [Asleep EXCEPT !.at = "trying", !.held = machine[m].held] ELSE Asleep
<1>1. /\ machine[m].at = "writing" /\ bundle' = [bundle EXCEPT ![m] = machine[m].held] /\ Sets(m, next)
      /\ UNCHANGED <<settingVars, storeVars>> /\ stranded' = stranded /\ misread' = misread
 BY DEF WriteBundle
<1>2. IsBundle(machine[m].held) /\ BundleFine(machine[m].held) /\ bundle[m] = TornBundle
 BY <1>1, OnboardTyped DEF MachineFine, Holding
<1>3. /\ next \in MachineState
      /\ next.at = "off" \/ (next.at = "trying" /\ next.held = machine[m].held)
 BY <1>2, AsleepShape DEF MachineState, MachineStage, IsBundle
<1> HIDE DEF next
<1>4. /\ cert' = cert /\ certs' = certs /\ uris' = uris /\ bearer' = bearer
 BY <1>1 DEF settingVars, storeVars
<1>5. machine'[m] = next
 BY <1>1, OnboardTyped DEF Sets
<1> USE DEF IsBundle
<1>6. /\ bundle' \in [Machines -> ClientBundle \cup {NoBundle, TornBundle}] /\ bundle'[m] = machine[m].held
      /\ \A x \in Machines : x # m => bundle'[x] = bundle[x]
 BY <1>1, <1>2, OnboardTyped
<1>7. BundleFine(bundle[m])'
 BY <1>2, <1>4, <1>6 DEF BundleFine, Usable, EndpointCovered
<1>8. MachineFine(m)'
 BY <1>2, <1>3, <1>4, <1>5 DEF MachineFine, Holding, BundleFine, Usable, EndpointCovered
<1>9. ~IsBundle(TornBundle)
 BY DEF OnboardingAssumption
<1>10. TokenAt(m) => TokenAt(m)'
 BY <1>2, <1>4, <1>6, <1>9 DEF TokenAt
<1> QED BY <1>1, <1>3, <1>6, <1>7, <1>8, <1>10, MachineSteps

LEMMA DiesKeeps ==
    ASSUME OnboardInv, NEW m \in Machines, Dies(m) PROVE OnboardInv'
<1>1. /\ stranded' = IF machine[m].at \in {"issued", "writing"}
                     THEN stranded \cup {machine[m].held.token} ELSE stranded
      /\ Sets(m, Asleep) /\ misread' = misread \ {m}
      /\ UNCHANGED <<settingVars, storeVars>> /\ bundle' = bundle
 BY DEF Dies
<1>2. Asleep \in MachineState /\ Asleep.at = "off"
 BY AsleepShape
<1> USE <1>1
<1>3. /\ cert' = cert /\ certs' = certs /\ uris' = uris /\ bearer' = bearer
 BY DEF settingVars, storeVars
<1>4. machine'[m] = Asleep
 BY OnboardTyped DEF Sets
<1>5. MachineFine(m)'
 BY <1>2, <1>4 DEF MachineFine, Holding
<1>6. BundleFine(bundle[m])'
 BY <1>3, OnboardTyped DEF BundleFine, Usable, EndpointCovered
<1>7. TokenAt(m) => TokenAt(m)' \/ bearer.n \in stranded'
 BY <1>3 DEF TokenAt
<1>8. stranded \subseteq stranded'
 OBVIOUS
<1> QED BY <1>2, <1>5, <1>6, <1>7, <1>8, OnboardTyped, MachineSteps

LEMMA LoadBundleKeeps ==
    ASSUME OnboardInv, NEW m \in Machines, LoadBundle(m) PROVE OnboardInv'
<1> DEFINE next == [Asleep EXCEPT !.at = "trying", !.held = bundle[m]]
<1>1. /\ machine[m] = Asleep /\ bundle[m] \notin {NoBundle, TornBundle} /\ Sets(m, next)
      /\ UNCHANGED <<settingVars, storeVars>> /\ bundle' = bundle /\ stranded' = stranded /\ misread' = misread
 BY DEF LoadBundle
<1> USE <1>1
<1>2. IsBundle(bundle[m]) /\ BundleFine(bundle[m])
 BY OnboardTyped DEF IsBundle
<1>3. next \in MachineState /\ next.at = "trying" /\ next.held = bundle[m]
 BY <1>2, AsleepShape DEF MachineState, MachineStage, IsBundle
<1> HIDE DEF next
<1>4. /\ cert' = cert /\ certs' = certs /\ uris' = uris /\ bearer' = bearer
 BY DEF settingVars, storeVars
<1>5. machine'[m] = next
 BY OnboardTyped DEF Sets
<1>6. BundleFine(bundle[m])'
 BY <1>2, <1>4 DEF BundleFine, Usable, EndpointCovered
<1>7. MachineFine(m)'
 BY <1>2, <1>3, <1>4, <1>5 DEF MachineFine, Holding, BundleFine, IsBundle, Usable, EndpointCovered
<1>8. machine[m].at = "off"
 BY AsleepShape
<1>9. TokenAt(m) => TokenAt(m)'
 BY <1>4, <1>8 DEF TokenAt
<1> QED BY <1>3, <1>6, <1>7, <1>9, OnboardTyped, MachineSteps

LEMMA ConnectOnceKeeps ==
    ASSUME OnboardInv, NEW m \in Machines, ConnectOnce(m) PROVE OnboardInv'
<1> DEFINE stage == IF VerifyBearer(machine[m].held.token) THEN "connected" ELSE "gaveUp"
           next == [machine[m] EXCEPT !.at = stage]
<1>1. /\ machine[m].at = "trying" /\ Sets(m, next)
      /\ UNCHANGED <<settingVars, storeVars>> /\ bundle' = bundle /\ stranded' = stranded /\ misread' = misread
 BY DEF ConnectOnce
<1>2. stage \in {"connected", "gaveUp"} /\ (stage = "gaveUp" => ~VerifyBearer(machine[m].held.token))
 OBVIOUS
<1> HIDE DEF stage
<1>3. next \in MachineState /\ next.at = stage /\ next.held = machine[m].held
 BY <1>2, OnboardTyped DEF MachineState, MachineStage
<1> HIDE DEF next
<1> USE <1>1
<1>4. /\ cert' = cert /\ certs' = certs /\ uris' = uris /\ bearer' = bearer
 BY DEF settingVars, storeVars
<1>5. machine'[m] = next
 BY OnboardTyped DEF Sets
<1>6. BundleFine(bundle[m])'
 BY <1>4, OnboardTyped DEF BundleFine, Usable, EndpointCovered
<1>7. IsBundle(machine[m].held) /\ BundleFine(machine[m].held)
 BY OnboardTyped DEF MachineFine, Holding
<1>8. MachineFine(m)'
 BY <1>2, <1>3, <1>4, <1>5, <1>7 DEF MachineFine, Holding, BundleFine, IsBundle, Usable,
  EndpointCovered, VerifyBearer
<1>9. TokenAt(m) => TokenAt(m)'
 BY <1>4 DEF TokenAt
<1> QED BY <1>3, <1>6, <1>8, <1>9, OnboardTyped, MachineSteps

LEMMA VerifyFailsKeeps ==
    ASSUME OnboardInv, NEW m \in Machines, VerifyFails(m) PROVE OnboardInv'
<1> DEFINE next == [machine[m] EXCEPT !.at = "gaveUp"]
<1>1. /\ machine[m].at = "trying" /\ Sets(m, next) /\ misread' = misread \cup {m}
      /\ UNCHANGED <<settingVars, storeVars>> /\ bundle' = bundle /\ stranded' = stranded
 BY DEF VerifyFails
<1>2. next \in MachineState /\ next.at = "gaveUp" /\ next.held = machine[m].held
 BY OnboardTyped DEF MachineState, MachineStage
<1> HIDE DEF next
<1> USE <1>1
<1>3. /\ cert' = cert /\ certs' = certs /\ uris' = uris /\ bearer' = bearer
 BY DEF settingVars, storeVars
<1>4. machine'[m] = next
 BY OnboardTyped DEF Sets
<1>5. BundleFine(bundle[m])'
 BY <1>3, OnboardTyped DEF BundleFine, Usable, EndpointCovered
<1>6. IsBundle(machine[m].held) /\ BundleFine(machine[m].held)
 BY OnboardTyped DEF MachineFine, Holding
<1>7. MachineFine(m)'
 BY <1>2, <1>3, <1>4, <1>6 DEF MachineFine, Holding, BundleFine, IsBundle, Usable, EndpointCovered
<1>8. TokenAt(m) => TokenAt(m)'
 BY <1>3 DEF TokenAt
<1> QED BY <1>2, <1>5, <1>7, <1>8, OnboardTyped, MachineSteps

\* An endpoint the server resolves is one its certificate covers.
LEMMA ResolvedUsable ==
    ASSUME OnboardInv, NEW header \in NetHost \cup {NoEndpoint}, NEW e \in resolve_advertised_endpoint(header)
    PROVE  e \in Endpoint /\ Usable(e, cert.pin)
<1>1. /\ cert.pin \in 1..Len(certs) /\ certs[cert.pin] = Sans(cert.baked)
 BY OnboardTyped DEF OnboardInv, CertCurrent
<1>2. e \in Endpoint /\ e.port /\ covers(e.host)
 <2>1. CASE override # NoEndpoint
  BY <2>1, OnboardTyped DEF resolve_advertised_endpoint, finalize_explicit, validate_authority
 <2>2. CASE override = NoEndpoint /\ seed # NoEndpoint
  BY <2>2, OnboardTyped DEF resolve_advertised_endpoint, finalize_explicit, validate_authority
 <2>3. CASE override = NoEndpoint /\ seed = NoEndpoint
  <3>1. e \in Implicit(header)
   BY <2>3 DEF resolve_advertised_endpoint
  <3>2. CASE header # NoEndpoint /\ covers(header)
   <4>1. e = [host |-> header, port |-> TRUE] /\ header \in NetHost
    BY <3>1, <3>2 DEF Implicit
   <4> QED BY <3>2, <4>1 DEF Endpoint, NetHost
  <3>3. CASE ~(header # NoEndpoint /\ covers(header))
   <4>1. e = [host |-> Loopback, port |-> TRUE] /\ covers(e.host)
    BY <3>1, <3>3 DEF Implicit
   <4> QED BY <4>1 DEF Endpoint
  <3> QED BY <3>2, <3>3
 <2> QED BY <2>1, <2>2, <2>3
<1> QED BY <1>1, <1>2 DEF Usable, EndpointCovered, covers

\* A change of settings or tickets that moves no machine.
LEMMA MachinesUntouched ==
    ASSUME OnboardInv, cert' = cert, certs' = certs, bearer' = bearer, machine' = machine, bundle' = bundle,
           stranded' = stranded, misread' = misread, uris \subseteq uris'
    PROVE  CertCurrent' /\ TokenSomewhere' /\ \A m \in Machines : BundleFine(bundle[m])' /\ MachineFine(m)'
<1>1. CertCurrent' /\ TokenSomewhere'
 BY DEF OnboardInv, CertCurrent, TokenSomewhere, TokenAt
<1>2. \A m \in Machines : BundleFine(bundle[m]) /\ MachineFine(m)
 BY OnboardTyped
<1> QED BY <1>1, <1>2 DEF BundleFine, MachineFine, Usable, EndpointCovered, VerifyBearer

LEMMA PutEndpointKeeps ==
    ASSUME OnboardInv, NEW e \in Endpoint \cup {NoEndpoint}, PutAdvertisedEndpoint(e)
    PROVE  OnboardInv'
<1>1. /\ override' = e /\ cert' = cert /\ certs' = certs /\ seed' = seed
      /\ ticket' = ticket /\ uris' = uris /\ bearer' = bearer
      /\ machine' = machine /\ bundle' = bundle /\ stranded' = stranded /\ misread' = misread
 BY DEF PutAdvertisedEndpoint, storeVars
<1>2. CertCurrent' /\ TokenSomewhere' /\ \A m \in Machines : BundleFine(bundle[m])' /\ MachineFine(m)'
 BY <1>1, MachinesUntouched
<1>3. OnboardTypeOK' /\ UrisMatch'
 BY <1>1 DEF OnboardInv, OnboardTypeOK, UrisMatch, Usable, EndpointCovered
<1> QED BY <1>2, <1>3 DEF OnboardInv

LEMMA CodeExpiresKeeps ==
    ASSUME OnboardInv, NEW c \in CodeIds, CodeExpires(c) PROVE OnboardInv'
<1>1. /\ ticket' = [ticket EXCEPT ![c].state = "expired"]
      /\ cert' = cert /\ certs' = certs /\ seed' = seed /\ override' = override /\ uris' = uris /\ bearer' = bearer
      /\ machine' = machine /\ bundle' = bundle /\ stranded' = stranded /\ misread' = misread
 BY DEF CodeExpires, settingVars
<1>2. CertCurrent' /\ TokenSomewhere' /\ \A m \in Machines : BundleFine(bundle[m])' /\ MachineFine(m)'
 BY <1>1, MachinesUntouched
<1>3. /\ ticket' \in [CodeIds -> Ticket] /\ ticket'[c].state = "expired"
      /\ \A x \in CodeIds : ticket'[x].endpoint = ticket[x].endpoint /\ (x # c => ticket'[x] = ticket[x])
 BY <1>1, OnboardTyped DEF Ticket
<1>4. \A u \in uris : u.code \in CodeIds
 BY OnboardTyped DEF Uri
<1> USE DEF OnboardInv
<1>5. UrisMatch'
 BY <1>1, <1>3, <1>4 DEF UrisMatch, Usable, EndpointCovered
<1>6. OnboardTypeOK'
 BY <1>1, <1>3 DEF OnboardTypeOK
<1> QED BY <1>2, <1>5, <1>6

LEMMA EnrollClientKeeps ==
    ASSUME OnboardingAssumption, OnboardInv, NEW c \in CodeIds, NEW header \in NetHost \cup {NoEndpoint},
           EnrollClient(header, c)
    PROVE  OnboardInv'
<1>1. PICK e \in resolve_advertised_endpoint(header) :
        /\ ticket' = [x \in DOMAIN ticket |->
              IF x = c THEN [state |-> "open", endpoint |-> e]
              ELSE IF ticket[x].state = "open" THEN [ticket[x] EXCEPT !.state = "spent"]
              ELSE ticket[x]]
        /\ uris' = uris \cup {[endpoint |-> e, pin |-> cert.pin, code |-> c]}
 BY DEF EnrollClient
<1>2. /\ ticket[c].state = "unused"
      /\ cert' = cert /\ certs' = certs /\ seed' = seed /\ override' = override /\ bearer' = bearer
      /\ machine' = machine /\ bundle' = bundle /\ stranded' = stranded /\ misread' = misread
 BY DEF EnrollClient, settingVars
<1>3. e \in Endpoint /\ Usable(e, cert.pin) /\ e # NoEndpoint
 BY ResolvedUsable DEF OnboardingAssumption
<1>4. CertCurrent' /\ TokenSomewhere' /\ \A m \in Machines : BundleFine(bundle[m])' /\ MachineFine(m)'
 BY <1>1, <1>2, MachinesUntouched
<1>5. ticket \in [CodeIds -> Ticket] /\ cert.pin \in Nat /\ uris \subseteq Uri
 BY OnboardTyped
<1>6. \A t \in Ticket : /\ [t EXCEPT !.state = "spent"] \in Ticket
                        /\ [t EXCEPT !.state = "spent"].endpoint = t.endpoint
                        /\ [t EXCEPT !.state = "spent"].state # "unused"
 BY DEF Ticket
<1>7. [state |-> "open", endpoint |-> e] \in Ticket
 BY <1>3 DEF Ticket
<1>8. /\ ticket' \in [CodeIds -> Ticket]
      /\ ticket'[c].state = "open" /\ ticket'[c].endpoint = e
      /\ \A x \in CodeIds : x # c => /\ ticket'[x].endpoint = ticket[x].endpoint
                                     /\ ticket[x].state # "unused" => ticket'[x].state # "unused"
 BY <1>1, <1>5, <1>6, <1>7
<1>9. [endpoint |-> e, pin |-> cert.pin, code |-> c] \in Uri
 BY <1>3, <1>5 DEF Uri
<1>10. OnboardTypeOK'
 BY <1>1, <1>2, <1>5, <1>8, <1>9 DEF OnboardInv, OnboardTypeOK
<1>11. UrisMatch'
 <2> SUFFICES ASSUME NEW u \in uris'
              PROVE  /\ ticket'[u.code].state # "unused"
                     /\ ticket'[u.code].endpoint # NoEndpoint =>
                           ticket'[u.code].endpoint = u.endpoint /\ Usable(u.endpoint, u.pin)
  BY <1>2 DEF UrisMatch, Usable, EndpointCovered
 <2>1. CASE u \in uris
  <3>1. u.code \in CodeIds /\ u.code # c
   BY <1>2, <1>5, <2>1 DEF OnboardInv, UrisMatch, Uri
  <3> QED BY <1>8, <2>1, <3>1 DEF OnboardInv, UrisMatch
 <2>2. CASE u = [endpoint |-> e, pin |-> cert.pin, code |-> c]
  BY <1>3, <1>8, <2>2
 <2> QED BY <1>1, <2>1, <2>2
<1> QED BY <1>4, <1>10, <1>11 DEF OnboardInv

LEMMA StageShape ==
    ASSUME NEW s \in MachineState, NEW stage \in MachineStage
    PROVE  /\ [s EXCEPT !.at = stage] \in MachineState /\ [s EXCEPT !.at = stage].at = stage
           /\ [s EXCEPT !.at = stage].held = s.held /\ [s EXCEPT !.at = stage].uri = s.uri
  BY DEF MachineState

LEMMA RevokeClientKeeps ==
    ASSUME OnboardInv, RevokeClient PROVE OnboardInv'
<1>1. /\ bearer' = [bearer EXCEPT !.revoked = TRUE]
      /\ machine' = [m \in Machines |-> IF machine[m].at = "connected"
                                        THEN [machine[m] EXCEPT !.at = "trying"] ELSE machine[m]]
      /\ cert' = cert /\ certs' = certs /\ seed' = seed /\ override' = override
      /\ ticket' = ticket /\ uris' = uris /\ bundle' = bundle /\ stranded' = stranded /\ misread' = misread
 BY DEF RevokeClient, settingVars
<1>2. bearer' \in [n : Nat, revoked : BOOLEAN] /\ bearer'.n = bearer.n /\ bearer'.revoked
 BY <1>1 DEF OnboardInv, OnboardTypeOK
<1>3. "trying" \in MachineStage /\ machine \in [Machines -> MachineState]
 BY OnboardTyped DEF MachineStage
<1>4. /\ machine' \in [Machines -> MachineState]
      /\ \A m \in Machines :
            \/ machine'[m] = machine[m]
            \/ /\ machine[m].at = "connected" /\ machine'[m].at = "trying"
               /\ machine'[m].held = machine[m].held
 BY <1>1, <1>3, StageShape
<1>5. OnboardTypeOK'
 BY <1>1, <1>2, <1>4 DEF OnboardInv, OnboardTypeOK
<1>6. CertCurrent' /\ UrisMatch'
 BY <1>1 DEF OnboardInv, CertCurrent, UrisMatch, Usable, EndpointCovered
<1>7. \A m \in Machines : BundleFine(bundle[m]) /\ MachineFine(m)
 BY OnboardTyped
<1>8. ASSUME NEW m \in Machines
      PROVE  BundleFine(bundle[m])' /\ MachineFine(m)' /\ (TokenAt(m) => TokenAt(m)')
 <2>1. BundleFine(bundle[m])'
  BY <1>1, <1>2, <1>7 DEF BundleFine, Usable, EndpointCovered
 <2>2. BundleFine(machine[m].held) => BundleFine(machine[m].held)'
  <3>1. CASE machine'[m].held = machine[m].held
   BY <1>1, <1>2, <3>1 DEF BundleFine, Usable, EndpointCovered
  <3> QED BY <1>4, <3>1
 <2>3. CASE machine'[m] = machine[m]
  <3>1. machine[m].at \in Holding => IsBundle(machine[m].held)' /\ BundleFine(machine[m].held)'
   BY <1>7, <2>2, <2>3 DEF MachineFine, IsBundle
  <3>2. MachineFine(m)'
   BY <1>1, <1>2, <1>7, <2>3, <3>1 DEF MachineFine, VerifyBearer
  <3> QED BY <1>1, <1>2, <2>1, <2>3, <3>2 DEF TokenAt
 <2>4. CASE machine[m].at = "connected" /\ machine'[m].at = "trying" /\ machine'[m].held = machine[m].held
  <3>1. IsBundle(machine[m].held)' /\ BundleFine(machine[m].held)'
   BY <1>7, <2>2, <2>4 DEF MachineFine, Holding, IsBundle
  <3>2. MachineFine(m)'
   BY <2>4, <3>1 DEF MachineFine, Holding
  <3> QED BY <1>1, <1>2, <2>1, <2>4, <3>2 DEF TokenAt
 <2> QED BY <1>4, <2>1, <2>3, <2>4
<1>9. TokenSomewhere'
 BY <1>1, <1>2, <1>8 DEF OnboardInv, TokenSomewhere
<1> QED BY <1>5, <1>6, <1>8, <1>9 DEF OnboardInv

LEMMA RebootKeeps ==
    ASSUME OnboardInv, NEW e \in Endpoint \cup {NoEndpoint}, Reboot(e) PROVE OnboardInv'
<1> DEFINE fresh == e # NoEndpoint /\ e.host # cert.baked
<1>1. /\ seed' = e
      /\ cert' = IF fresh THEN [pin |-> cert.pin + 1, baked |-> e.host] ELSE cert
      /\ certs' = IF fresh THEN Append(certs, Sans(e.host)) ELSE certs
      /\ machine' = [m \in Machines |->
            CASE machine[m].at = "dialed" -> Asleep
              [] machine[m].at = "connected" -> [machine[m] EXCEPT !.at = "trying"]
              [] OTHER -> machine[m]]
 BY DEF Reboot
<1>2. /\ override' = override /\ ticket' = ticket /\ uris' = uris /\ bearer' = bearer
      /\ bundle' = bundle /\ stranded' = stranded /\ misread' = misread
 BY DEF Reboot, storeVars
<1>3. /\ cert.pin \in Nat /\ cert.pin = Len(certs) /\ cert.pin >= 1 /\ certs[cert.pin] = Sans(cert.baked)
      /\ certs \in Seq(SUBSET (NetHost \cup {NoEndpoint}))
      /\ cert \in [pin : Nat, baked : NetHost \cup {NoEndpoint}]
 BY OnboardTyped DEF OnboardInv, CertCurrent, OnboardTypeOK
<1>4. fresh => e.host \in NetHost /\ Sans(e.host) \in SUBSET (NetHost \cup {NoEndpoint})
 BY DEF Endpoint, NetHost, Sans
<1> HIDE DEF fresh
<1>5. /\ cert' \in [pin : Nat, baked : NetHost \cup {NoEndpoint}]
      /\ certs' \in Seq(SUBSET (NetHost \cup {NoEndpoint}))
      /\ \A i \in 1..Len(certs) : i \in 1..Len(certs') /\ certs'[i] = certs[i]
      /\ CertCurrent'
 <2>1. CASE fresh
  <3>1. cert'.pin = cert.pin + 1 /\ cert'.baked = e.host /\ cert' \in [pin : Nat, baked : NetHost \cup {NoEndpoint}]
   BY <1>1, <1>3, <1>4, <2>1
  <3>2. /\ certs' = Append(certs, Sans(e.host))
        /\ Sans(e.host) \in SUBSET (NetHost \cup {NoEndpoint})
   BY <1>1, <1>4, <2>1
  <3>3. /\ certs' \in Seq(SUBSET (NetHost \cup {NoEndpoint})) /\ Len(certs') = Len(certs) + 1
        /\ certs'[Len(certs) + 1] = Sans(e.host)
        /\ \A i \in 1..Len(certs) : certs'[i] = certs[i]
   <4> DEFINE U == SUBSET (NetHost \cup {NoEndpoint})
              new == Sans(e.host)
   <4>1. certs \in Seq(U) /\ new \in U /\ certs' = Append(certs, new)
    BY <1>3, <3>2
   <4> HIDE DEF U, new
   <4>2. /\ Append(certs, new) \in Seq(U) /\ Len(Append(certs, new)) = Len(certs) + 1
         /\ Append(certs, new)[Len(certs) + 1] = new
         /\ \A i \in 1..Len(certs) : Append(certs, new)[i] = certs[i]
    BY <4>1
   <4> QED BY <4>1, <4>2 DEF U, new
  <3>4. Len(certs) \in Nat
   BY <1>3
  <3>5. CertCurrent'
   BY <1>3, <3>1, <3>3 DEF CertCurrent
  <3> QED BY <3>1, <3>3, <3>4, <3>5
 <2>2. CASE ~fresh
  BY <1>1, <1>3, <2>2 DEF CertCurrent
 <2> QED BY <2>1, <2>2
<1>6. \A f, pin : Usable(f, pin) => Usable(f, pin)'
 BY <1>5 DEF Usable, EndpointCovered
<1>7. "trying" \in MachineStage /\ machine \in [Machines -> MachineState] /\ Asleep \in MachineState
      /\ Asleep.at = "off"
 BY OnboardTyped, AsleepShape DEF MachineStage
<1>8. ASSUME NEW m \in Machines
      PROVE  /\ machine'[m] \in MachineState
             /\ \/ machine[m].at = "dialed" /\ machine'[m].at = "off"
                \/ /\ machine[m].at = "connected" /\ machine'[m].at = "trying"
                   /\ machine'[m].held = machine[m].held
                \/ machine[m].at # "dialed" /\ machine'[m] = machine[m]
 <2>1. machine[m] \in MachineState
  BY <1>7
 <2>2. /\ [machine[m] EXCEPT !.at = "trying"] \in MachineState
       /\ [machine[m] EXCEPT !.at = "trying"].at = "trying"
       /\ [machine[m] EXCEPT !.at = "trying"].held = machine[m].held
  BY <1>7, <2>1, StageShape
 <2>3. machine'[m] = CASE machine[m].at = "dialed" -> Asleep
                       [] machine[m].at = "connected" -> [machine[m] EXCEPT !.at = "trying"]
                       [] OTHER -> machine[m]
  BY <1>1
 <2> QED BY <1>7, <2>1, <2>2, <2>3
<1>9. machine' \in [Machines -> MachineState]
 <2>1. machine' = [m \in Machines |-> machine'[m]]
  BY <1>1
 <2> QED BY <1>8, <2>1
<1> USE <1>2
<1>10. OnboardTypeOK'
 BY <1>1, <1>5, <1>9 DEF OnboardInv, OnboardTypeOK
<1>11. UrisMatch'
 BY <1>6 DEF OnboardInv, UrisMatch
<1>12. ASSUME NEW m \in Machines
       PROVE  BundleFine(bundle[m])' /\ MachineFine(m)' /\ (TokenAt(m) => TokenAt(m)')
 <2>0. BundleFine(bundle[m]) /\ MachineFine(m)
  BY OnboardTyped
 <2>1. BundleFine(bundle[m])'
  BY <1>6, <2>0 DEF BundleFine
 <2> USE <2>1 DEF MachineFine
 <2>2. CASE machine[m].at = "dialed" /\ machine'[m].at = "off"
  BY <2>2 DEF Holding, TokenAt
 <2>3. CASE machine[m].at = "connected" /\ machine'[m].at = "trying" /\ machine'[m].held = machine[m].held
  BY <1>6, <2>0, <2>3 DEF Holding, TokenAt, BundleFine, IsBundle
 <2>4. CASE machine[m].at # "dialed" /\ machine'[m] = machine[m]
  <3>1. machine[m].at \in Holding => IsBundle(machine[m].held)' /\ BundleFine(machine[m].held)'
   BY <1>6, <2>0, <2>4 DEF BundleFine, IsBundle
  <3> QED BY <2>0, <2>4, <3>1 DEF VerifyBearer, TokenAt
 <2> QED BY <1>8, <2>2, <2>3, <2>4
<1>13. TokenSomewhere'
 BY <1>12 DEF OnboardInv, TokenSomewhere
<1> QED BY <1>5, <1>10, <1>11, <1>12, <1>13 DEF OnboardInv

LEMMA RedeemCodeKeeps ==
    ASSUME OnboardingAssumption, OnboardInv, NEW m \in Machines, RedeemCode(m) PROVE OnboardInv'
<1> DEFINE c == machine[m].uri.code
           e == IF ticket[c].state = "open" THEN ReplayEndpoint(c) ELSE {}
           f == CHOOSE f \in e : TRUE
           b == [endpoint |-> f, pin |-> cert.pin, token |-> bearer.n + 1]
           issued == [machine[m] EXCEPT !.at = "issued", !.held = b]
<1>1. /\ machine[m].at = "dialed"
      /\ cert' = cert /\ certs' = certs /\ seed' = seed /\ override' = override
      /\ uris' = uris /\ bundle' = bundle /\ stranded' = stranded /\ misread' = misread
 BY DEF RedeemCode, settingVars
<1>2. machine[m].uri \in uris /\ machine[m].uri.pin = cert.pin
 BY <1>1, OnboardTyped DEF MachineFine
<1>3. c \in CodeIds
 BY <1>2, OnboardTyped DEF Uri
<1>4. CASE e = {}
 <2>1. Sets(m, Asleep) /\ ticket' = ticket /\ bearer' = bearer
  BY <1>4 DEF RedeemCode
 <2> USE <2>1
 <2>2. UNCHANGED <<settingVars, storeVars>>
  BY <1>1 DEF settingVars, storeVars
 <2>3. machine'[m] = Asleep /\ Asleep \in MachineState /\ Asleep.at = "off"
  BY OnboardTyped, AsleepShape DEF Sets
 <2>4. MachineFine(m)'
  BY <2>3 DEF MachineFine, Holding
 <2>5. BundleFine(bundle[m])'
  BY <1>1, OnboardTyped DEF BundleFine, Usable, EndpointCovered
 <2>6. TokenAt(m) => TokenAt(m)'
  BY <1>1 DEF TokenAt
 <2> QED BY <1>1, <2>2, <2>3, <2>4, <2>5, <2>6, OnboardTyped, MachineSteps
<1>5. CASE e # {}
 <2>1. /\ ticket' = [ticket EXCEPT ![c].state = "spent"]
       /\ bearer' = [n |-> bearer.n + 1, revoked |-> FALSE]
       /\ machine' = [x \in Machines |->
             IF x = m THEN issued
             ELSE IF machine[x].at = "connected"
             THEN [machine[x] EXCEPT !.at = "trying"] ELSE machine[x]]
  BY <1>5 DEF RedeemCode
 <2>2. f \in Endpoint /\ Usable(f, cert.pin)
  <3>1. f \in e
   BY <1>5
  <3>2. f \in ReplayEndpoint(c)
   BY <3>1
  <3> HIDE DEF f, e
  <3>3. CASE ticket[c].endpoint # NoEndpoint
   <4>1. f = ticket[c].endpoint
    BY <3>2, <3>3 DEF ReplayEndpoint
   <4>2. ticket[c].endpoint = machine[m].uri.endpoint /\ Usable(machine[m].uri.endpoint, machine[m].uri.pin)
    BY <1>2, <3>3 DEF OnboardInv, UrisMatch
   <4>3. machine[m].uri.endpoint \in Endpoint
    BY <1>2, OnboardTyped DEF Uri
   <4> QED BY <1>2, <4>1, <4>2, <4>3
  <3>4. CASE ticket[c].endpoint = NoEndpoint
   <4>1. f \in resolve_advertised_endpoint(NoEndpoint)
    BY <3>2, <3>4 DEF ReplayEndpoint
   <4> QED BY <4>1, ResolvedUsable
  <3> QED BY <3>3, <3>4
 <2> HIDE DEF f, e
 <2>3. bearer.n \in Nat /\ cert.pin \in Nat /\ machine \in [Machines -> MachineState]
  BY OnboardTyped
 <2>4. b \in ClientBundle /\ b.endpoint = f /\ b.pin = cert.pin /\ b.token = bearer.n + 1
  BY <2>2, <2>3 DEF ClientBundle
 <2> HIDE DEF b
 <2>5. issued \in MachineState /\ issued.at = "issued" /\ issued.held = b
  BY <2>3, <2>4 DEF MachineState, MachineStage
 <2> HIDE DEF issued
 <2>6. bearer' \in [n : Nat, revoked : BOOLEAN] /\ bearer'.n = bearer.n + 1
  BY <2>1, <2>3
 <2>7. ASSUME NEW x \in Machines, x # m
       PROVE  /\ machine'[x] \in MachineState
              /\ \/ machine'[x] = machine[x]
                 \/ /\ machine[x].at = "connected" /\ machine'[x].at = "trying"
                    /\ machine'[x].held = machine[x].held
  <3>1. "trying" \in MachineStage /\ machine[x] \in MachineState
   BY <2>3 DEF MachineStage
  <3>2. /\ [machine[x] EXCEPT !.at = "trying"] \in MachineState
        /\ [machine[x] EXCEPT !.at = "trying"].at = "trying"
        /\ [machine[x] EXCEPT !.at = "trying"].held = machine[x].held
   BY <3>1, StageShape
  <3>3. machine'[x] = IF machine[x].at = "connected" THEN [machine[x] EXCEPT !.at = "trying"] ELSE machine[x]
   BY <2>1, <2>7
  <3> QED BY <3>1, <3>2, <3>3
 <2>8. machine'[m] = issued
  BY <2>1
 <2>9. machine' \in [Machines -> MachineState]
  <3>1. machine' = [x \in Machines |-> machine'[x]]
   BY <2>1
  <3> QED BY <2>5, <2>7, <2>8, <3>1
 <2>10. /\ ticket' \in [CodeIds -> Ticket]
        /\ \A x \in CodeIds : ticket'[x].endpoint = ticket[x].endpoint
                              /\ (ticket'[x].state = "unused" => ticket[x].state = "unused")
  <3> HIDE DEF c
  <3> QED BY <1>3, <2>1, OnboardTyped DEF Ticket
 <2>11. OnboardTypeOK'
  BY <1>1, <2>6, <2>9, <2>10 DEF OnboardInv, OnboardTypeOK
 <2>12. UrisMatch' /\ CertCurrent'
  <3>1. \A u \in uris : u.code \in CodeIds
   BY OnboardTyped DEF Uri
  <3> QED BY <1>1, <2>10, <3>1 DEF OnboardInv, UrisMatch, CertCurrent, Usable, EndpointCovered
 <2>13. \A x \in Machines : BundleFine(bundle[x])'
  <3> TAKE x \in Machines
  <3>1. BundleFine(bundle[x]) /\ (IsBundle(bundle[x]) => bundle[x].token \in Nat)
   BY OnboardTyped DEF IsBundle, ClientBundle
  <3> QED BY <1>1, <2>3, <2>6, <3>1 DEF BundleFine, Usable, EndpointCovered
 <2>14. ASSUME NEW x \in Machines, x # m PROVE MachineFine(x)'
  <3>0. MachineFine(x)
   BY OnboardTyped
  <3>1. machine[x].at \in Holding => /\ machine[x].held.token \in Nat
                                     /\ machine[x].held.token <= bearer.n
                                     /\ machine[x].held.token <= bearer'.n
                                     /\ machine[x].held.token # bearer'.n
   <4>1. machine[x].at \in Holding => machine[x].held.token \in Nat /\ machine[x].held.token <= bearer.n
    BY <3>0 DEF MachineFine, BundleFine, IsBundle, ClientBundle
   <4> QED BY <2>3, <2>6, <4>1
  <3> USE DEF MachineFine, BundleFine, IsBundle
  <3>2. machine[x].at \in Holding => /\ machine[x].held \in ClientBundle
                                     /\ Usable(machine[x].held.endpoint, machine[x].held.pin)
   BY <3>0
  <3>3. CASE machine'[x] = machine[x]
   BY <1>1, <3>0, <3>1, <3>2, <3>3 DEF Usable, EndpointCovered, VerifyBearer, Holding
  <3>4. CASE machine[x].at = "connected" /\ machine'[x].at = "trying" /\ machine'[x].held = machine[x].held
   BY <1>1, <3>1, <3>2, <3>4 DEF Usable, EndpointCovered, Holding
  <3> QED BY <2>7, <2>14, <3>3, <3>4
 <2>15. MachineFine(m)'
  <3>1. IsBundle(bundle[m]) => bundle[m].token < b.token
   BY <2>3, <2>4, OnboardTyped DEF BundleFine, IsBundle, ClientBundle
  <3>2. machine'[m].held = b /\ machine'[m].at = "issued"
   BY <2>5, <2>8
  <3>3. b.token <= bearer'.n
   BY <2>3, <2>4, <2>6
  <3>4. b.pin \in 1..Len(certs') /\ b.endpoint.port /\ b.endpoint.host \in certs'[b.pin]
   BY <1>1, <2>2, <2>4 DEF Usable, EndpointCovered
  <3>5. IsBundle(machine[m].held)' /\ BundleFine(machine[m].held)'
   BY <2>4, <3>2, <3>3, <3>4 DEF BundleFine, IsBundle, Usable, EndpointCovered
  <3> QED BY <1>1, <3>1, <3>2, <3>5 DEF MachineFine, IsBundle
 <2>16. TokenSomewhere'
  BY <2>4, <2>5, <2>6, <2>8 DEF TokenSomewhere, TokenAt
 <2> QED BY <2>11, <2>12, <2>13, <2>14, <2>15, <2>16 DEF OnboardInv
<1> QED BY <1>4, <1>5

LEMMA OnboardStarts ==
    ASSUME OnboardingAssumption, OnboardInit PROVE OnboardInv
<1>1. PICK ranBefore \in BOOLEAN, h \in Reaching :
        /\ cert = [pin |-> 1, baked |-> IF ranBefore THEN h ELSE NoEndpoint]
        /\ ticket = [c \in 1 .. MaxUris |->
              [state |-> IF c = 1 /\ ranBefore THEN "open" ELSE "unused", endpoint |-> NoEndpoint]]
        /\ uris = IF ranBefore
                  THEN {[endpoint |-> [host |-> h, port |-> TRUE], pin |-> 1, code |-> 1]} ELSE {}
 BY DEF OnboardInit
<1>2. /\ certs = <<Sans(cert.baked)>>
      /\ seed = NoEndpoint /\ override = NoEndpoint
      /\ bearer = [n |-> 0, revoked |-> FALSE]
      /\ machine = [m \in Machines |-> Asleep] /\ bundle = [m \in Machines |-> NoBundle]
      /\ stranded = {} /\ misread = {}
 BY DEF OnboardInit
<1>3. h \in NetHost /\ 1 \in CodeIds /\ [host |-> h, port |-> TRUE] \in Endpoint
 BY DEF NetHost, CodeIds, OnboardingAssumption, Endpoint
<1>4. cert \in [pin : Nat, baked : NetHost \cup {NoEndpoint}] /\ cert.pin = 1
      /\ Sans(cert.baked) \in SUBSET (NetHost \cup {NoEndpoint})
 BY <1>1, <1>3 DEF Sans, NetHost
<1>5. certs \in Seq(SUBSET (NetHost \cup {NoEndpoint})) /\ Len(certs) = 1 /\ certs[1] = Sans(cert.baked)
 <2> DEFINE U == SUBSET (NetHost \cup {NoEndpoint})
            only == Sans(cert.baked)
 <2>1. only \in U /\ certs = <<only>>
  BY <1>2, <1>4
 <2> HIDE DEF U, only
 <2>2. <<only>> \in Seq(U) /\ Len(<<only>>) = 1 /\ <<only>>[1] = only
  BY <2>1
 <2> QED BY <2>1, <2>2 DEF U, only
<1>6. /\ ticket \in [CodeIds -> Ticket]
      /\ \A c \in CodeIds : ticket[c].endpoint = NoEndpoint
      /\ ranBefore => ticket[1].state # "unused"
 BY <1>1, <1>3 DEF CodeIds, Ticket
<1>7. uris \subseteq Uri /\ \A u \in uris : u.code = 1 /\ ranBefore
 <2> DEFINE here == [host |-> h, port |-> TRUE]
            first == [endpoint |-> here, pin |-> 1, code |-> 1]
 <2>1. uris = IF ranBefore THEN {first} ELSE {}
  BY <1>1
 <2>2. here \in Endpoint
  BY <1>3
 <2> HIDE DEF here
 <2>3. first \in Uri /\ first.code = 1
  BY <1>3, <2>2 DEF Uri
 <2> HIDE DEF first
 <2> QED BY <2>1, <2>3
<1>8. bearer \in [n : Nat, revoked : BOOLEAN] /\ bearer.n = 0
 BY <1>2
<1>9. machine \in [Machines -> MachineState] /\ \A m \in Machines : machine[m].at = "off"
 BY <1>2, AsleepShape
<1>10. OnboardTypeOK
 BY <1>2, <1>4, <1>5, <1>6, <1>7, <1>8, <1>9 DEF OnboardTypeOK
<1>11. CertCurrent
 BY <1>4, <1>5 DEF CertCurrent
<1>12. UrisMatch
 BY <1>3, <1>6, <1>7 DEF UrisMatch
<1>13. \A m \in Machines : BundleFine(bundle[m]) /\ MachineFine(m)
 <2>1. ~IsBundle(NoBundle)
  BY DEF IsBundle, OnboardingAssumption
 <2> QED BY <1>2, <1>9, <2>1 DEF BundleFine, MachineFine, Holding
<1>14. TokenSomewhere
 BY <1>8 DEF TokenSomewhere
<1> QED BY <1>10, <1>11, <1>12, <1>13, <1>14 DEF OnboardInv

LEMMA OnboardNextKeeps ==
    ASSUME OnboardingAssumption, OnboardInv, [OnboardNext]_onboardVars PROVE OnboardInv'
<1>1. CASE UNCHANGED onboardVars
 <2>1. /\ cert' = cert /\ certs' = certs /\ seed' = seed /\ override' = override
       /\ ticket' = ticket /\ uris' = uris /\ bearer' = bearer
       /\ machine' = machine /\ bundle' = bundle /\ stranded' = stranded /\ misread' = misread
  BY <1>1 DEF onboardVars, settingVars, storeVars
 <2>2. CertCurrent' /\ TokenSomewhere' /\ \A m \in Machines : BundleFine(bundle[m])' /\ MachineFine(m)'
  BY <2>1, MachinesUntouched
 <2>3. OnboardTypeOK' /\ UrisMatch'
  BY <2>1 DEF OnboardInv, OnboardTypeOK, UrisMatch, Usable, EndpointCovered
 <2> QED BY <2>2, <2>3 DEF OnboardInv
<1>2. CASE OperatorActs
 <2>1. DOMAIN ticket = CodeIds
  BY OnboardTyped
 <2>2. NetHosts \cup {Loopback, NoEndpoint} = NetHost \cup {NoEndpoint}
  BY DEF NetHost
 <2>3. CASE \E e \in Endpoint \cup {NoEndpoint} : PutAdvertisedEndpoint(e) \/ Reboot(e)
  BY <2>3, PutEndpointKeeps, RebootKeeps
 <2>4. CASE \E c \in DOMAIN ticket : CodeExpires(c)
  BY <2>1, <2>4, CodeExpiresKeeps
 <2>5. CASE \E c \in DOMAIN ticket : \E h \in NetHosts \cup {Loopback, NoEndpoint} : EnrollClient(h, c)
  BY <2>1, <2>2, <2>5, EnrollClientKeeps
 <2>6. CASE RevokeClient
  BY <2>6, RevokeClientKeeps
 <2> QED BY <1>2, <2>3, <2>4, <2>5, <2>6 DEF OperatorActs
<1>3. ASSUME NEW m \in Machines, MachineActs(m) PROVE OnboardInv'
 <2>1. CASE \E u \in uris, boot \in BOOLEAN : Enroll(m, u, boot)
  BY <2>1, EnrollKeeps
 <2>2. CASE RedeemCode(m) \/ OpenBundle(m) \/ WriteBundle(m) \/ Dies(m)
  BY <2>2, RedeemCodeKeeps, OpenBundleKeeps, WriteBundleKeeps, DiesKeeps
 <2>3. CASE LoadBundle(m) \/ ConnectOnce(m) \/ VerifyFails(m)
  BY <2>3, LoadBundleKeeps, ConnectOnceKeeps, VerifyFailsKeeps
 <2> QED BY <1>3, <2>1, <2>2, <2>3 DEF MachineActs
<1> QED BY <1>1, <1>2, <1>3 DEF OnboardNext

LEMMA OnboardInvGives ==
    ASSUME OnboardingAssumption, OnboardInv PROVE OnboardingSound
<1>1. \A m \in Machines : bundle[m] \notin {NoBundle, TornBundle} <=> IsBundle(bundle[m])
 BY OnboardTyped DEF IsBundle, OnboardingAssumption
<1>2. GivesUpForCause
 BY OnboardTyped DEF GivesUpForCause, MachineFine
<1>3. BundlesUsable
 <2>1. \A m \in Machines : bundle[m] \in {NoBundle, TornBundle} \/
                           EndpointCovered(bundle[m].endpoint, bundle[m].pin)
  BY <1>1, OnboardTyped DEF BundleFine, Usable
 <2>2. \A u \in uris : ticket[u.code].endpoint /= NoEndpoint => EndpointCovered(u.endpoint, u.pin)
  BY DEF OnboardInv, UrisMatch, Usable
 <2> QED BY <2>1, <2>2 DEF BundlesUsable
<1>4. TokenHeld
 BY <1>1 DEF OnboardInv, TokenSomewhere, TokenAt, TokenHeld
<1> QED BY <1>2, <1>3, <1>4 DEF OnboardingSound

\* For every number of machines, hosts, codes and restarts: a client gives up
\* only on a token that is dead for good (or a store that could not be read),
\* every bundle and URI names an endpoint its pinned certificate covers, and
\* the current token is never lost without a crash or a lost reply
\* (advertised/, enrollment.rs, enroll.rs, client main.rs).
THEOREM OnboardingCorrect == OnboardSpec => []OnboardingSound
<1>1. OnboardInit => OnboardInv
 BY OnboardStarts, OnboardingAssumption
<1>2. OnboardInv /\ [OnboardNext]_onboardVars => OnboardInv'
 BY OnboardNextKeeps, OnboardingAssumption
<1>3. OnboardInv => OnboardingSound
 BY OnboardInvGives, OnboardingAssumption
<1> QED BY <1>1, <1>2, <1>3, PTL DEF OnboardSpec
=============================================================================
