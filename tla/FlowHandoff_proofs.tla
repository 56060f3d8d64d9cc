---- MODULE FlowHandoff_proofs ----
(***************************************************************************)
(* Theorems about FlowHandoff, for any set of buffer objects, any mode and *)
(* any number of frames.  HandoffInv is the inductive invariant: it adds   *)
(* to UniqueOwner and ScanoutSafe which owner a BO has at each point of    *)
(* the two threads, since neither property survives a step on its own.     *)
(***************************************************************************)
EXTENDS FlowHandoff, TLAPS, FiniteSetTheorems

USE BufsAssumption DEF BufsAssumption

----
(* Type correctness. *)

\* The options are those the program was started with.
LEMMA OptionsFixed == [Next]_vars => UNCHANGED <<options, FlowMode, Writeback>>
<1> SUFFICES ASSUME [Next]_vars PROVE UNCHANGED options
  BY DEF FlowMode, Writeback
<1> QED BY DEF Next, Flow, Presenter, PageFlip, RequestStop, Closed, vars

LEMMA TypeInit == Init => TypeOK
<1> USE DEF Init, TypeOK, Fbs, BufsOrNone, FlowPcs, PresPcs
<1>1. Init => seq \in [Bufs -> Nat] /\ rendered \in Nat /\ published \in Nat
  OBVIOUS
<1>2. Init => flowPc \in FlowPcs /\ presPc \in PresPcs
  OBVIOUS
<1>3. Init => /\ stop \in BOOLEAN /\ nonblocking \in BOOLEAN /\ modeset \in BOOLEAN
              /\ flip \in {"none", "queued", "event"}
  OBVIOUS
<1>4. Init => locked \subseteq Bufs /\ {back, flowBo, pendingBo, acqBo, currentBo} \subseteq BufsOrNone
  OBVIOUS
<1>5. Init => {pendingFb, acqFb, currentFb, scanFb, flipFb} \subseteq Fbs
  OBVIOUS
<1>6. Init => options \in Options
  OBVIOUS
<1> QED BY <1>1, <1>2, <1>3, <1>4, <1>5, <1>6

LEMMA TypeFlow == TypeOK /\ OwnerInv /\ Flow => TypeOK'
<1> SUFFICES ASSUME TypeOK, OwnerInv, Flow PROVE TypeOK'
  OBVIOUS
<1>o. UNCHANGED options
  BY OptionsFixed DEF Next
<1>0. flowPc = "swap" => back \in Bufs
  BY DEF OwnerInv
<1> USE DEF TypeOK, Fbs, BufsOrNone, FlowPcs, presVars, currVars, kmsVars, pendVars,
            flowVars, gbmVars, Release, StopProgram, Free
<1>1. CASE RenderFrame
  <2>1. seq' \in [Bufs -> Nat] /\ rendered' \in Nat
    BY <1>o, <1>1 DEF RenderFrame
  <2>2. back' \in BufsOrNone
    BY <1>o, <1>1 DEF RenderFrame
  <2> QED BY <1>o, <1>1, <2>1, <2>2 DEF RenderFrame
<1>2. CASE RenderStarves     BY <1>o, <1>2 DEF RenderStarves
<1>3. CASE LockFrame         BY <1>0, <1>o, <1>3 DEF LockFrame
<1>4. CASE LockFrameFails    BY <1>o, <1>4 DEF LockFrameFails
<1>5. CASE PublishRendered
  <2>1. locked' \subseteq Bufs
    BY <1>o, <1>5 DEF PublishRendered
  <2> QED BY <1>o, <1>5, <2>1 DEF PublishRendered
<1>6. CASE PublishSolid      BY <1>o, <1>6 DEF PublishSolid
<1>7. CASE PublishSolidFails BY <1>o, <1>7 DEF PublishSolidFails
<1>8. CASE FlowQuits         BY <1>o, <1>8 DEF FlowQuits
<1> QED BY <1>1, <1>2, <1>3, <1>4, <1>5, <1>6, <1>7, <1>8 DEF Flow

LEMMA TypePresenter == TypeOK /\ Presenter => TypeOK'
<1> SUFFICES ASSUME TypeOK, Presenter PROVE TypeOK'
  OBVIOUS
<1>o. UNCHANGED options
  BY OptionsFixed DEF Next
<1> USE DEF TypeOK, Fbs, BufsOrNone, PresPcs, FlowPcs, presVars, currVars, kmsVars, pendVars,
            flowVars, gbmVars, Release, StopProgram
<1>1. CASE AcquireLatest
  BY <1>o, <1>1 DEF AcquireLatest, TakePending, VideoOnlyUpdate, VideoKinds
<1>2. CASE AcquireRendered
  <2> USE <1>2 DEF AcquireRendered, Free
  <2>1. seq' \in [Bufs -> Nat] /\ rendered' \in Nat /\ published' \in Nat
    OBVIOUS
  <2>2. locked' \subseteq Bufs /\ acqFb' \in Fbs /\ acqBo' \in BufsOrNone
    OBVIOUS
  <2>3. nonblocking' \in BOOLEAN
    BY DEF VideoOnlyUpdate, VideoKinds
  <2>4. presPc' \in PresPcs
    OBVIOUS
  <2>5. UNCHANGED <<back, flowVars, pendVars, currVars, kmsVars, stop>>
    OBVIOUS
  <2> HIDE <1>2 DEF AcquireRendered, Free
  <2> QED BY <1>o, <2>5, <2>1, <2>2, <2>3, <2>4
<1>3. CASE AcquireFails    BY <1>o, <1>3 DEF AcquireFails
<1>4. CASE Commit          BY <1>o, <1>4 DEF Commit, CommittedFb
<1>5. CASE CommitFails     BY <1>o, <1>5 DEF CommitFails
<1>6. CASE CaptureFails    BY <1>o, <1>6 DEF CaptureFails, CommittedFb
<1>7. CASE ReleaseAcquired
  <2> USE <1>7 DEF ReleaseAcquired
  <2>1. locked' \subseteq Bufs /\ acqFb' \in Fbs /\ acqBo' \in BufsOrNone
    OBVIOUS
  <2>2. presPc' \in PresPcs /\ nonblocking' \in BOOLEAN
    OBVIOUS
  <2>3. UNCHANGED <<back, seq, rendered, published, flowVars, pendVars, currVars, kmsVars, stop>>
    OBVIOUS
  <2> HIDE <1>7 DEF ReleaseAcquired, Release
  <2> QED BY <1>o, <2>1, <2>2, <2>3
<1>8. CASE PresentFailed   BY <1>o, <1>8 DEF PresentFailed
<1>9. CASE Adopt
  <2> USE <1>9 DEF Adopt
  <2>1. locked' \subseteq Bufs /\ acqFb' \in Fbs /\ acqBo' \in BufsOrNone
    OBVIOUS
  <2>2. presPc' \in PresPcs /\ nonblocking' \in BOOLEAN
    OBVIOUS
  <2>3. currentFb' \in Fbs /\ currentBo' \in BufsOrNone
    OBVIOUS
  <2>4. UNCHANGED <<back, seq, rendered, published, flowVars, pendVars, kmsVars, stop>>
    OBVIOUS
  <2> HIDE <1>9 DEF Adopt, Release
  <2> QED BY <1>o, <2>1, <2>2, <2>3, <2>4
<1>10. CASE PresenterQuits BY <1>o, <1>10 DEF PresenterQuits
<1>11. CASE Cleanup        BY <1>o, <1>11 DEF Cleanup
<1> QED BY <1>1, <1>2, <1>3, <1>4, <1>5, <1>6, <1>7, <1>8, <1>9, <1>10, <1>11 DEF Presenter

LEMMA TypeStep == TypeOK /\ OwnerInv /\ [Next]_vars => TypeOK'
<1> SUFFICES ASSUME TypeOK, OwnerInv, [Next]_vars PROVE TypeOK'
  OBVIOUS
<1> USE DEF TypeOK, presVars, currVars, kmsVars, pendVars, flowVars, gbmVars
<1>1. CASE Flow           BY <1>1, TypeFlow
<1>2. CASE Presenter      BY <1>2, TypePresenter
<1>3. CASE PageFlip       BY <1>3 DEF PageFlip, Fbs
<1>4. CASE RequestStop    BY <1>4 DEF RequestStop
<1>5. CASE UNCHANGED vars BY <1>5 DEF vars
<1> QED BY <1>1, <1>2, <1>3, <1>4, <1>5 DEF Next, Closed

----
(* Ownership of the buffer objects. *)

LEMMA OwnerInit == Init => OwnerInv
BY DEF Init, OwnerInv, UniqueOwner, Owned, BoOf, Holding

LEMMA OwnerFlow == TypeOK /\ OwnerInv /\ Flow => OwnerInv'
<1> SUFFICES ASSUME TypeOK, OwnerInv, Flow PROVE OwnerInv'
  OBVIOUS
<1>0. UNCHANGED <<options, FlowMode>>
  BY OptionsFixed DEF Next
<1> USE DEF TypeOK, Fbs, BufsOrNone, OwnerInv, UniqueOwner, Owned, BoOf, Holding,
            presVars, currVars, kmsVars, pendVars, flowVars, gbmVars, StopProgram
<1>1. CASE RenderFrame       BY <1>0, <1>1 DEF RenderFrame, Free
<1>2. CASE RenderStarves     BY <1>0, <1>2 DEF RenderStarves
<1>3. CASE LockFrame         BY <1>0, <1>3 DEF LockFrame
<1>4. CASE LockFrameFails    BY <1>0, <1>4 DEF LockFrameFails
<1>5. CASE PublishRendered   BY <1>0, <1>5 DEF PublishRendered, Release
<1>6. CASE PublishSolid      BY <1>0, <1>6 DEF PublishSolid, Release
<1>7. CASE PublishSolidFails BY <1>0, <1>7 DEF PublishSolidFails
<1>8. CASE FlowQuits         BY <1>0, <1>8 DEF FlowQuits
<1> QED BY <1>1, <1>2, <1>3, <1>4, <1>5, <1>6, <1>7, <1>8 DEF Flow

LEMMA OwnerPresenter == TypeOK /\ OwnerInv /\ Presenter => OwnerInv'
<1> SUFFICES ASSUME TypeOK, OwnerInv, Presenter PROVE OwnerInv'
  OBVIOUS
<1>0. UNCHANGED <<options, FlowMode>>
  BY OptionsFixed DEF Next
<1> USE DEF TypeOK, Fbs, BufsOrNone, OwnerInv, UniqueOwner, Owned, BoOf, Holding,
            presVars, currVars, kmsVars, pendVars, flowVars, gbmVars, StopProgram
<1>1. CASE AcquireLatest
  BY <1>0, <1>1 DEF AcquireLatest, TakePending, VideoOnlyUpdate, VideoKinds
<1>2. CASE AcquireRendered
  BY <1>0, <1>2 DEF AcquireRendered, Free, VideoOnlyUpdate, VideoKinds
<1>3. CASE AcquireFails    BY <1>0, <1>3 DEF AcquireFails
<1>4. CASE Commit          BY <1>0, <1>4 DEF Commit, CommittedFb
<1>5. CASE CommitFails     BY <1>0, <1>5 DEF CommitFails
<1>6. CASE CaptureFails    BY <1>0, <1>6 DEF CaptureFails, CommittedFb
<1>7. CASE ReleaseAcquired BY <1>0, <1>7 DEF ReleaseAcquired, Release
<1>8. CASE PresentFailed   BY <1>0, <1>8 DEF PresentFailed
<1>9. CASE Adopt           BY <1>0, <1>9 DEF Adopt, Release
<1>10. CASE PresenterQuits BY <1>0, <1>10 DEF PresenterQuits
<1>11. CASE Cleanup        BY <1>0, <1>11 DEF Cleanup
<1> QED BY <1>1, <1>2, <1>3, <1>4, <1>5, <1>6, <1>7, <1>8, <1>9, <1>10, <1>11 DEF Presenter

LEMMA OwnerStep == TypeOK /\ OwnerInv /\ [Next]_vars => OwnerInv'
<1> SUFFICES ASSUME TypeOK, OwnerInv, [Next]_vars PROVE OwnerInv'
  OBVIOUS
<1>0. UNCHANGED FlowMode
  BY OptionsFixed
<1> USE DEF OwnerInv, UniqueOwner, Owned, BoOf, Holding,
            presVars, currVars, kmsVars, pendVars, flowVars, gbmVars
<1>1. CASE Flow           BY <1>0, <1>1, OwnerFlow
<1>2. CASE Presenter      BY <1>0, <1>2, OwnerPresenter
<1>3. CASE PageFlip       BY <1>0, <1>3 DEF PageFlip
<1>4. CASE RequestStop    BY <1>0, <1>4 DEF RequestStop
<1>5. CASE UNCHANGED vars BY <1>0, <1>5 DEF vars
<1> QED BY <1>1, <1>2, <1>3, <1>4, <1>5 DEF Next, Closed

----
(* The display. *)

LEMMA DisplayInit == Init => DisplayInv
BY BufsAssumption DEF Init, DisplayInv

LEMMA DisplayStep ==
  ASSUME ~Writeback, TypeOK, OwnerInv, DisplayInv, [Next]_vars
  PROVE  DisplayInv'
<1> USE DEF DisplayInv, presVars, currVars, kmsVars, pendVars, flowVars, gbmVars
<1>1. CASE Flow
  BY <1>1 DEF Flow, RenderFrame, RenderStarves, LockFrame, LockFrameFails, PublishRendered,
              PublishSolid, PublishSolidFails, FlowQuits
<1>2. CASE AcquireLatest \/ AcquireRendered \/ AcquireFails \/ PresenterQuits
  BY <1>2 DEF AcquireLatest, AcquireRendered, AcquireFails, PresenterQuits
<1>3. CASE Commit
  <2>1. presPc = "commit" /\ presPc' = "adopt" /\ UNCHANGED <<acqFb, acqBo, currVars>>
    BY <1>3 DEF Commit
  <2>2. scanFb \in Bufs => scanFb = currentFb
    BY <2>1
  <2>3. CommittedFb \in Bufs => CommittedFb = acqFb
    \* Either acqFb is put on the plane, or the plane keeps showing currentFb,
    \* which acquire_flow_framebuffer returned.
    BY <2>1, <2>2 DEF CommittedFb, OwnerInv, Holding, BoOf, TypeOK, Fbs
  <2>4. Captures = {FALSE}
    BY DEF Captures
  <2>5. CASE modeset /\ nonblocking
    <3>1. acqBo = NoBuf
      BY <2>5 DEF OwnerInv
    <3>2. CommittedFb \in Bufs => CommittedFb = scanFb
      BY <2>1, <2>2, <2>3, <2>5, <3>1 DEF CommittedFb, OwnerInv, Holding
    <3>3. scanFb \in Bufs => scanFb = acqFb
      BY <2>1, <2>2, <3>1 DEF OwnerInv, Holding
    <3> QED BY <1>3, <2>1, <2>4, <2>5, <3>2, <3>3 DEF Commit
  <2>6. CASE ~(modeset /\ nonblocking)
    BY <1>3, <2>1, <2>3, <2>4, <2>6 DEF Commit
  <2> QED BY <2>5, <2>6
<1>4. CASE CommitFails \/ PresentFailed
  BY <1>4 DEF CommitFails, PresentFailed
<1>5. CASE CaptureFails
  BY <1>5 DEF CaptureFails
<1>6. CASE ReleaseAcquired
  BY <1>6 DEF ReleaseAcquired
<1>7. CASE Adopt
  BY <1>7 DEF Adopt
<1>8. CASE Cleanup
  BY <1>8 DEF Cleanup
<1>9. CASE PageFlip
  BY <1>9 DEF PageFlip
<1>10. CASE RequestStop \/ UNCHANGED vars
  BY <1>10 DEF RequestStop, vars
<1> QED BY <1>1, <1>2, <1>3, <1>4, <1>5, <1>6, <1>7, <1>8, <1>9, <1>10 DEF Next, Presenter, Closed

----
(* Theorems. *)

LEMMA HandoffInvariant == Spec => [](TypeOK /\ HandoffInv)
<1>1. Init => TypeOK /\ HandoffInv
  BY TypeInit, OwnerInit, DisplayInit DEF HandoffInv
<1>2. TypeOK /\ HandoffInv /\ [Next]_vars => TypeOK' /\ HandoffInv'
  BY TypeStep, OwnerStep, DisplayStep, OptionsFixed DEF HandoffInv
<1> QED BY <1>1, <1>2, PTL DEF Spec

\* The Flow thread and the presenter keep every pointer, framebuffer and
\* program counter among the values the code gives them.
THEOREM TypeCorrect == Spec => []TypeOK
BY HandoffInvariant, PTL

\* Every locked BO has exactly one owner, on every path of publish, present and
\* commit, the failing ones and the writeback capture included.
THEOREM OneOwner == Spec => []UniqueOwner
<1>1. HandoffInv => UniqueOwner
  BY DEF HandoffInv, OwnerInv
<1> QED BY <1>1, HandoffInvariant, PTL

\* Without writeback capture a BO the display reads, or will read at a queued
\* flip, is locked and not drawn into: the release in adopt_flow_framebuffer
\* comes after the display has moved on, blocking commit or not.
THEOREM ScanoutSafety == Spec => []ScanoutSafe
<1>1. TypeOK /\ HandoffInv => ScanoutSafe
  <2> SUFFICES ASSUME TypeOK, OwnerInv, DisplayInv, NEW b \in Bufs, b \in {scanFb, flipFb}
               PROVE  b \in locked /\ b # back
    BY DEF HandoffInv, ScanoutSafe
  <2>1. b = scanFb /\ b = IF presPc = "adopt" THEN acqFb ELSE currentFb
    BY DEF DisplayInv
  <2>2. b \in {acqBo, currentBo}
    BY <2>1, BufsAssumption DEF OwnerInv, Holding, BoOf
  <2>3. b \in locked
    BY <2>2, BufsAssumption DEF OwnerInv, UniqueOwner, Owned
  <2> QED BY <2>3 DEF OwnerInv
<1> QED BY <1>1, HandoffInvariant, PTL

LEMMA AtMostThree ==
  \A x, y, z : IsFiniteSet({x, y, z}) /\ Cardinality({x, y, z}) <= 3
<1> SUFFICES ASSUME NEW x, NEW y, NEW z
             PROVE  IsFiniteSet({x, y, z}) /\ Cardinality({x, y, z}) <= 3
  OBVIOUS
<1>1. IsFiniteSet({x}) /\ Cardinality({x}) = 1
  BY FS_Singleton
<1> DEFINE S == {x} \cup {y}
<1>2. IsFiniteSet(S) /\ Cardinality(S) <= 2
  <2>1. /\ IsFiniteSet(S)
        /\ Cardinality(S) = IF y \in {x} THEN Cardinality({x}) ELSE Cardinality({x}) + 1
    BY <1>1, FS_AddElement, Zenon
  <2> QED BY <1>1, <2>1
<1>3. Cardinality(S) \in Nat
  BY <1>2, FS_CardinalityType
<1>4. {x, y, z} = S \cup {z}
  OBVIOUS
<1> HIDE DEF S
<1>5. /\ IsFiniteSet(S \cup {z})
      /\ Cardinality(S \cup {z}) = IF z \in S THEN Cardinality(S) ELSE Cardinality(S) + 1
  BY <1>2, FS_AddElement
<1>6. Cardinality(S \cup {z}) <= 3
  BY <1>2, <1>3, <1>5
<1> QED BY <1>4, <1>5, <1>6

\* With the four color buffers of a Mesa GBM surface, or more, the Flow thread
\* always finds a BO to draw into: when it starts a frame only the pending, the
\* acquired and the current frame can be locked.
THEOREM NoStarvation ==
  IsFiniteSet(Bufs) /\ Cardinality(Bufs) >= 4 => (Spec => []NeverStarved)
<1> SUFFICES ASSUME IsFiniteSet(Bufs), Cardinality(Bufs) >= 4 PROVE Spec => []NeverStarved
  OBVIOUS
<1>1. TypeOK /\ HandoffInv => NeverStarved
  <2> SUFFICES ASSUME OwnerInv, flowPc = "render", Free = {} PROVE FALSE
    BY DEF NeverStarved, HandoffInv
  <2> DEFINE Held == {pendingBo, acqBo, currentBo}
  <2>1. locked \subseteq Held /\ back = NoBuf
    BY DEF OwnerInv, UniqueOwner, Owned
  <2>2. Bufs \subseteq Held
    BY <2>1, BufsAssumption DEF Free
  <2>3. IsFiniteSet(Held) /\ Cardinality(Held) <= 3
    BY AtMostThree
  <2>4. Cardinality(Bufs) <= Cardinality(Held)
    BY <2>2, <2>3, FS_Subset
  <2> QED BY <2>3, <2>4, FS_CardinalityType
<1> QED BY <1>1, HandoffInvariant, PTL

----
(* The mailbox. *)

\* Frames pass through the hand-off in the order of their numbers: the one being
\* drawn or published is the newest, then come the pending, the acquired and the
\* current one, and none but the first exceeds the number published.
Newer(b, others) == b # NoBuf => \A o \in others \ {NoBuf} : seq[o] < seq[b]

OrderInv ==
    /\ published <= rendered /\ rendered <= MaxFrames
    /\ flowPc = "render" \/ FlowMode = "sync" => published = rendered
    /\ flowPc \in {"swap", "publish"} => rendered = published + 1
    /\ flowPc = "swap" => seq[back] = rendered
    /\ flowPc = "publish" => seq[flowBo] = rendered
    /\ \A b \in {pendingBo, acqBo, currentBo} \ {NoBuf} : seq[b] \in 1..published
    /\ Newer(pendingBo, {acqBo, currentBo})
    /\ Newer(acqBo, {currentBo})
    /\ FlowMode = "sync" => pendingBo = NoBuf

\* A flip that is on its way does not take a frame off the plane.
FlipInv == flip = "queued" /\ scanFb \in Bufs => flipFb \in Bufs

LEMMA OrderInit == Init => OrderInv
BY MaxFramesAssumption DEF Init, OrderInv, Newer, FlowMode, MaxFramesAssumption

LEMMA OrderFlow == TypeOK /\ OwnerInv /\ OrderInv /\ Flow => OrderInv'
<1> SUFFICES ASSUME TypeOK, OwnerInv, OrderInv, Flow PROVE OrderInv'
  OBVIOUS
<1>0. UNCHANGED FlowMode
  BY OptionsFixed DEF Next
<1> USE <1>0 DEF OrderInv, Newer, presVars, currVars, kmsVars, pendVars, flowVars, gbmVars
<1>1. CASE RenderFrame
  <2>1. PICK b \in Free : back' = b /\ seq' = [seq EXCEPT ![b] = rendered + 1]
    BY <1>1 DEF RenderFrame
  <2>2. \A o \in {pendingBo, acqBo, currentBo} \ {NoBuf} : seq'[o] = seq[o]
    BY <2>1 DEF Free, OwnerInv, UniqueOwner, Owned, TypeOK, BufsOrNone
  <2>3. seq'[back'] = rendered + 1
    BY <2>1 DEF Free, TypeOK
  <2> QED BY <1>1, <2>2, <2>3, MaxFramesAssumption DEF RenderFrame, TypeOK, MaxFramesAssumption
<1>2. CASE LockFrame       BY <1>2 DEF LockFrame
<1>3. CASE PublishRendered
  <2> USE <1>3 DEF PublishRendered
  <2>1. flowBo \in Bufs /\ pendingBo' = flowBo /\ UNCHANGED <<seq, acqBo, currentBo, rendered>>
    BY DEF OwnerInv
  <2>2. published' = published + 1 /\ rendered = published + 1 /\ flowPc' = "render"
    OBVIOUS
  <2>3. seq[flowBo] = published'
    BY <2>2
  <2>4. FlowMode = "async"
    BY DEF OwnerInv
  <2> HIDE <1>3 DEF PublishRendered
  <2> QED BY <2>1, <2>2, <2>3, <2>4 DEF TypeOK
<1>4. CASE PublishSolid    BY <1>4 DEF PublishSolid
<1>5. CASE RenderStarves \/ LockFrameFails \/ PublishSolidFails \/ FlowQuits
  BY <1>5 DEF RenderStarves, LockFrameFails, PublishSolidFails, FlowQuits, OwnerInv
<1> QED BY <1>1, <1>2, <1>3, <1>4, <1>5 DEF Flow

LEMMA OrderPresenter == TypeOK /\ OwnerInv /\ OrderInv /\ Presenter => OrderInv'
<1> SUFFICES ASSUME TypeOK, OwnerInv, OrderInv, Presenter PROVE OrderInv'
  OBVIOUS
<1>0. UNCHANGED FlowMode
  BY OptionsFixed DEF Next
<1> USE <1>0 DEF OrderInv, Newer, presVars, currVars, kmsVars, pendVars, flowVars, gbmVars
<1>1. CASE AcquireLatest
  BY <1>1 DEF AcquireLatest, TakePending, OwnerInv, Holding
<1>2. CASE AcquireRendered
  <2>1. PICK b \in Free : /\ seq' = [seq EXCEPT ![b] = rendered + 1]
                          /\ acqBo' = b
    BY <1>2 DEF AcquireRendered
  <2>2. seq'[b] = rendered + 1 /\ (currentBo # NoBuf => seq'[currentBo] = seq[currentBo])
    BY <2>1 DEF Free, OwnerInv, UniqueOwner, Owned, TypeOK, BufsOrNone
  <2>3. pendingBo' = NoBuf /\ FlowMode = "sync" /\ flowPc \notin {"swap", "publish"}
    BY <1>2 DEF AcquireRendered, OwnerInv
  <2>4. published' = published + 1 /\ rendered' = rendered + 1 /\ published = rendered
    BY <1>2, <2>3 DEF AcquireRendered
  <2>5. UNCHANGED <<flowPc, currentBo>> /\ rendered < MaxFrames
    BY <1>2 DEF AcquireRendered
  <2> QED BY <2>1, <2>2, <2>3, <2>4, <2>5, MaxFramesAssumption DEF TypeOK, MaxFramesAssumption
<1>3. CASE AcquireFails \/ Commit \/ CommitFails \/ CaptureFails
  BY <1>3 DEF AcquireFails, Commit, CommitFails, CaptureFails
<1>4. CASE ReleaseAcquired BY <1>4 DEF ReleaseAcquired
<1>5. CASE Adopt           BY <1>5 DEF Adopt
<1>6. CASE PresentFailed \/ PresenterQuits
  BY <1>6 DEF PresentFailed, PresenterQuits
<1>7. CASE Cleanup         BY <1>7 DEF Cleanup, OwnerInv, Holding
<1> QED BY <1>1, <1>2, <1>3, <1>4, <1>5, <1>6, <1>7 DEF Presenter

LEMMA OrderStep == TypeOK /\ OwnerInv /\ OrderInv /\ [Next]_vars => OrderInv'
<1> SUFFICES ASSUME TypeOK, OwnerInv, OrderInv, [Next]_vars PROVE OrderInv'
  OBVIOUS
<1>0. UNCHANGED FlowMode
  BY OptionsFixed
<1> USE DEF OrderInv, Newer, presVars, currVars, kmsVars, pendVars, flowVars, gbmVars
<1>1. CASE Flow           BY <1>1, OrderFlow
<1>2. CASE Presenter      BY <1>2, OrderPresenter
<1>3. CASE PageFlip       BY <1>0, <1>3 DEF PageFlip
<1>4. CASE RequestStop    BY <1>0, <1>4 DEF RequestStop
<1>5. CASE UNCHANGED vars BY <1>0, <1>5 DEF vars
<1> QED BY <1>1, <1>2, <1>3, <1>4, <1>5 DEF Next, Closed

\* What a step of the two threads, the display and the environment is to the mailbox.
\* A step that can neither publish nor show anything is a stutter.
LEMMA Stutters ==
  ASSUME UNCHANGED <<options, published, scanFb>>, presPc' = "closed" <=> presPc = "closed",
         scanFb \in Bufs => seq'[scanFb] = seq[scanFb]
  PROVE  UNCHANGED Mailbox!vars
BY DEF Mailbox!vars, Shown, Writeback

LEMMA MailboxInit == Init => Mailbox!Init
BY BufsAssumption DEF Init, Mailbox!Init, Shown, Writeback

\* A commit puts the acquired frame on the plane, which is as new as any shown
\* before, or leaves the plane as it is.
LEMMA CommitShows ==
  ASSUME TypeOK, OwnerInv, OrderInv, ~Writeback, DisplayInv, presPc = "commit",
         scanFb' \in {scanFb, CommittedFb}, presPc' # "closed", UNCHANGED <<options, seq, published>>
  PROVE  [Mailbox!Next]_Mailbox!vars
<1>1. CASE scanFb' = scanFb
  BY <1>1, Stutters
<1>2. CASE scanFb' # scanFb /\ scanFb' \notin Bufs
  <2>1. scanFb \notin Bufs
    BY <1>2 DEF DisplayInv, CommittedFb, TypeOK, Fbs, OwnerInv, BoOf, Holding
  <2> QED BY <1>2, <2>1 DEF Mailbox!vars, Shown, Writeback
<1>3. CASE scanFb' # scanFb /\ scanFb' \in Bufs
  <2>1. scanFb' = acqFb /\ acqFb \in Bufs
    BY <1>3 DEF CommittedFb
  <2>2. acqFb \in {acqBo, currentBo}
    BY <2>1 DEF OwnerInv, Holding, BoOf
  <2>3. seq[acqFb] \in 1..published
    BY <2>1, <2>2 DEF OrderInv
  <2>4. scanFb \in Bufs => scanFb = currentBo
    BY DEF DisplayInv, OwnerInv, BoOf
  <2>5. scanFb \in Bufs => acqFb = acqBo /\ seq[scanFb] < seq[acqFb]
    BY <1>3, <2>1, <2>2, <2>4 DEF OrderInv, Newer
  <2>6. Shown \in Nat /\ Shown < Shown' /\ Shown' \in 1..published
    BY <2>1, <2>3, <2>5 DEF Shown, TypeOK
  <2>7. Shown' \in (Shown + 1)..published
    BY <2>6 DEF TypeOK
  <2> QED BY <2>7 DEF Mailbox!Next, Mailbox!Show, Writeback
<1> QED BY <1>1, <1>2, <1>3

LEMMA MailboxFlow ==
  ASSUME TypeOK, HandoffInv, OrderInv, Flow
  PROVE  [Mailbox!Next]_Mailbox!vars
<1> USE DEF presVars, currVars, kmsVars, pendVars, flowVars, gbmVars
<1>0. UNCHANGED <<options, presPc, scanFb>>
  BY DEF Flow, RenderFrame, RenderStarves, LockFrame, LockFrameFails, PublishRendered,
         PublishSolid, PublishSolidFails, FlowQuits
<1>1. CASE RenderFrame
  <2>1. CASE Writeback
    BY <1>0, <1>1, <2>1 DEF RenderFrame, Mailbox!vars, Writeback
  <2>2. CASE ~Writeback
    <3>1. PICK b \in Free : seq' = [seq EXCEPT ![b] = rendered + 1]
      BY <1>1 DEF RenderFrame
    <3>2. scanFb \in Bufs => scanFb \in locked
      BY <2>2 DEF HandoffInv, DisplayInv, OwnerInv, UniqueOwner, Owned, BoOf, Holding
    <3>3. scanFb \in Bufs => seq'[scanFb] = seq[scanFb]
      BY <3>1, <3>2 DEF Free, TypeOK
    <3>4. UNCHANGED published
      BY <1>1 DEF RenderFrame
    <3> QED BY <1>0, <3>3, <3>4, Stutters
  <2> QED BY <2>1, <2>2
<1>2. CASE PublishRendered
  <2>1. published' = published + 1 /\ published < MaxFrames
    BY <1>2, MaxFramesAssumption DEF PublishRendered, OrderInv, TypeOK, MaxFramesAssumption
  <2>2. UNCHANGED Shown
    BY <1>0, <1>2 DEF PublishRendered, Shown
  <2> QED BY <1>0, <2>1, <2>2 DEF Mailbox!Next, Mailbox!Publish, Writeback
<1>3. CASE RenderStarves \/ LockFrame \/ LockFrameFails \/ PublishSolid \/ PublishSolidFails \/ FlowQuits
  <2>1. UNCHANGED <<published, seq>>
    BY <1>3 DEF RenderStarves, LockFrame, LockFrameFails, PublishSolid, PublishSolidFails, FlowQuits
  <2> QED BY <1>0, <2>1, Stutters
<1> QED BY <1>1, <1>2, <1>3 DEF Flow

LEMMA MailboxPresenter ==
  ASSUME TypeOK, HandoffInv, OrderInv, Presenter
  PROVE  [Mailbox!Next]_Mailbox!vars
<1> USE DEF presVars, currVars, kmsVars, pendVars, flowVars, gbmVars
<1>0. UNCHANGED options
  BY DEF Presenter
<1>1. CASE AcquireRendered
  <2>0. published' = published + 1 /\ published < MaxFrames
    BY <1>1, MaxFramesAssumption DEF AcquireRendered, OrderInv, TypeOK, MaxFramesAssumption
  <2>1. UNCHANGED scanFb
    BY <1>1 DEF AcquireRendered
  <2>2. presPc # "closed" /\ presPc' # "closed"
    BY <1>1 DEF AcquireRendered
  <2>3. ~Writeback => UNCHANGED Shown
    <3> SUFFICES ASSUME ~Writeback PROVE UNCHANGED Shown
      OBVIOUS
    <3>1. PICK b \in Free : seq' = [seq EXCEPT ![b] = rendered + 1]
      BY <1>1 DEF AcquireRendered
    <3>2. scanFb \in Bufs => scanFb \in locked
      BY DEF HandoffInv, DisplayInv, OwnerInv, UniqueOwner, Owned, BoOf, Holding
    <3>3. scanFb \in Bufs => seq'[scanFb] = seq[scanFb]
      BY <3>1, <3>2 DEF Free, TypeOK
    <3> QED BY <2>1, <3>3 DEF Shown
  <2> QED BY <1>0, <2>0, <2>2, <2>3 DEF Mailbox!Next, Mailbox!Publish, Writeback
<1>2. CASE Commit \/ CaptureFails
  <2>1. CASE Writeback
    BY <1>0, <1>2, <2>1 DEF Commit, CaptureFails, Mailbox!vars, Writeback
  <2>2. CASE ~Writeback
    <3>1. presPc = "commit" /\ presPc' # "closed" /\ UNCHANGED <<seq, published>>
      BY <1>2 DEF Commit, CaptureFails
    <3>2. scanFb' \in {scanFb, CommittedFb}
      BY <1>2 DEF Commit, CaptureFails
    <3> QED BY <1>0, <2>2, <3>1, <3>2, CommitShows DEF HandoffInv
  <2> QED BY <2>1, <2>2
<1>3. CASE Cleanup
  <2>1. Shown' = 0 /\ presPc = "done" /\ presPc' = "closed" /\ UNCHANGED published
    BY <1>3, BufsAssumption DEF Cleanup, Shown
  <2> QED BY <1>0, <2>1 DEF Mailbox!Next, Mailbox!TurnOff, Writeback
<1>4. CASE AcquireLatest \/ AcquireFails \/ CommitFails \/ ReleaseAcquired \/ PresentFailed \/ Adopt \/ PresenterQuits
  <2>1. UNCHANGED <<scanFb, seq, published>> /\ presPc # "closed" /\ presPc' # "closed"
    BY <1>4 DEF AcquireLatest, AcquireFails, CommitFails, ReleaseAcquired, PresentFailed, Adopt, PresenterQuits
  <2> QED BY <1>0, <2>1, Stutters
<1> QED BY <1>1, <1>2, <1>3, <1>4 DEF Presenter

LEMMA MailboxStep == TypeOK /\ HandoffInv /\ OrderInv /\ FlipInv /\ [Next]_vars => [Mailbox!Next]_Mailbox!vars
<1> SUFFICES ASSUME TypeOK, HandoffInv, OrderInv, FlipInv, [Next]_vars PROVE [Mailbox!Next]_Mailbox!vars
  OBVIOUS
<1> USE DEF presVars, currVars, kmsVars, pendVars, flowVars, gbmVars
<1>1. CASE Flow           BY <1>1, MailboxFlow
<1>2. CASE Presenter      BY <1>2, MailboxPresenter
<1>3. CASE PageFlip
  \* A queued flip shows what the plane shows already.
  <2>1. UNCHANGED <<options, published, seq, presPc>> /\ scanFb' = flipFb
    BY <1>3 DEF PageFlip
  <2>2. CASE Writeback
    BY <2>1, <2>2 DEF Mailbox!vars, Writeback
  <2>3. CASE ~Writeback /\ flipFb \in Bufs
    BY <2>1, <2>3, Stutters DEF HandoffInv, DisplayInv
  <2>4. CASE ~Writeback /\ flipFb \notin Bufs
    BY <1>3, <2>1, <2>4 DEF PageFlip, FlipInv, Mailbox!vars, Shown, Writeback
  <2> QED BY <2>2, <2>3, <2>4
<1>4. CASE RequestStop \/ UNCHANGED vars
  BY <1>4, Stutters DEF RequestStop, vars
<1> QED BY <1>1, <1>2, <1>3, <1>4 DEF Next, Closed

LEMMA FlipStep == TypeOK /\ OwnerInv /\ FlipInv /\ [Next]_vars => FlipInv'
<1> SUFFICES ASSUME TypeOK, OwnerInv, FlipInv, [Next]_vars PROVE FlipInv'
  OBVIOUS
<1> USE DEF FlipInv, presVars, currVars, kmsVars, pendVars, flowVars, gbmVars
<1>1. CASE Flow
  BY <1>1 DEF Flow, RenderFrame, RenderStarves, LockFrame, LockFrameFails, PublishRendered,
              PublishSolid, PublishSolidFails, FlowQuits
<1>2. CASE Commit
  BY <1>2 DEF Commit, CommittedFb, OwnerInv, TypeOK, Fbs
<1>3. CASE CaptureFails \/ Cleanup \/ PageFlip
  BY <1>3 DEF CaptureFails, Cleanup, PageFlip
<1>4. CASE AcquireLatest \/ AcquireRendered \/ AcquireFails \/ CommitFails \/ ReleaseAcquired
           \/ PresentFailed \/ Adopt \/ PresenterQuits
  BY <1>4 DEF AcquireLatest, AcquireRendered, AcquireFails, CommitFails, ReleaseAcquired,
              PresentFailed, Adopt, PresenterQuits
<1>5. CASE RequestStop \/ UNCHANGED vars
  BY <1>5 DEF RequestStop, vars
<1> QED BY <1>1, <1>2, <1>3, <1>4, <1>5 DEF Next, Presenter, Closed

LEMMA OrderInvariant == Spec => [](OrderInv /\ FlipInv)
<1>1. TypeOK /\ HandoffInv => OwnerInv
  BY DEF HandoffInv
<1>2. Init => FlipInv
  BY DEF Init, FlipInv
<1> QED BY <1>1, <1>2, OrderInit, OrderStep, FlipStep, HandoffInvariant, PTL DEF Spec

\* Frames that leave the Flow thread reach the plane in the order they were published,
\* whole and never after a later one, until the compositor gives the plane up: the
\* hand-off with its buffer objects, threads and failures implements the mailbox.
THEOREM MailboxRefinement == Spec => ImplementsMailbox
BY MailboxInit, MailboxStep, HandoffInvariant, OrderInvariant, PTL DEF Spec, ImplementsMailbox, Mailbox!Spec
====
