--------------------------- MODULE HearingProofs ---------------------------
(***************************************************************************)
(* Theorems about how NOVA hears, for every value of the constants.        *)
(* MCHearing names its components.  Mic: a microphone that is off is       *)
(* released, and the manager in the main process listens when the renderer *)
(* captures, both as long as no two starts overlapped.  A: an utterance    *)
(* ends after its silence.  The transcription has no prefix: its final     *)
(* texts are the utterances, each whole and once.                          *)
(***************************************************************************)
EXTENDS MCHearing, FiniteSetTheorems, TLAPS

\* The part of the types that the proofs use.
MicTypes ==
  /\ starts \in [Mic!Origins -> {"none", "opening", "resuming"}]
  /\ stream \in Nat /\ live \subseteq Nat /\ taps \in Nat /\ opened \in Nat
  /\ {capturing, confirmed, listening, crossed} \subseteq BOOLEAN
  /\ toMain \in Seq(Mic!Reports)

\* A start at a time, and while it is under way nothing is captured or confirmed; the
\* recorder holds the one stream that is open.
StartInOrder ==
  /\ \A o, p \in Mic!Origins : ~Mic!Idle(o) /\ ~Mic!Idle(p) => o = p
  /\ ~Mic!NoStart => ~capturing /\ ~confirmed
  /\ \A o \in Mic!Origins : /\ starts[o] = "opening" => live = {}
                            /\ starts[o] = "resuming" => stream # Mic!NoStream /\ live = {stream}

\* The last report that is no error, if it is still under way, tells of the capture;
\* if none is, the manager knows.
Tells(k) == toMain[k] \in {"active", "inactive"}

ReportsTell ==
  /\ \A k \in 1 .. Len(toMain) :
       Tells(k) /\ (\A m \in k + 1 .. Len(toMain) : ~Tells(m)) =>
         (toMain[k] = "active" <=> capturing /\ confirmed)
  /\ (\A k \in 1 .. Len(toMain) : ~Tells(k)) => (listening <=> capturing /\ confirmed)

MicInv ==
  /\ MicTypes /\ Mic!OffReleasesTheDevice
  /\ ~crossed => StartInOrder /\ ReportsTell

-----------------------------------------------------------------------------

LEMMA MicInit == Mic!Init => MicInv
<1> SUFFICES ASSUME Mic!Init PROVE MicInv
  OBVIOUS
<1> USE DEF Mic!Init, Mic!CaptureInit
<1>1. MicTypes
  <2>1. starts \in [Mic!Origins -> {"none", "opening", "resuming"}]
    OBVIOUS
  <2>2. toMain \in Seq(Mic!Reports)
    OBVIOUS
  <2>3. QED
    BY <2>1, <2>2 DEF MicTypes, Mic!NoStream
<1>2. starts["boot"] = "opening" /\ ~Mic!NoStart
  BY DEF Mic!NoStart, Mic!Idle, Mic!Origins
<1>3. Mic!OffReleasesTheDevice /\ StartInOrder
  BY <1>2 DEF Mic!OffReleasesTheDevice, StartInOrder, Mic!Idle, Mic!Origins
<1>4. ReportsTell
  BY DEF ReportsTell
<1>5. QED
  BY <1>1, <1>3, <1>4 DEF MicInv

-----------------------------------------------------------------------------
(* The reports under way.                                                  *)

\* The renderer reports a start or a stop when it happens.
LEMMA ToldByAppend ==
  ASSUME MicTypes, NEW r \in {"active", "inactive"}, toMain' = Append(toMain, r),
         r = "active" <=> capturing' /\ confirmed'
  PROVE  ReportsTell'
<1>0. PICK n \in Nat : n = Len(toMain)
  BY DEF MicTypes
<1>1. Len(toMain') = n + 1 /\ toMain'[n + 1] = r
  BY <1>0 DEF MicTypes, Mic!Reports
<1>2. Tells(n + 1)'
  BY <1>1 DEF Tells
<1>3. \A k \in 1 .. n : n + 1 \in k + 1 .. n + 1
  BY <1>1
<1>4. \A k \in 1 .. n + 1 : k \in 1 .. n \/ k = n + 1
  BY <1>1
<1>5. n + 1 \in 1 .. n + 1
  BY <1>1
<1>6. \A k \in 1 .. Len(toMain') :
        Tells(k)' /\ (\A m \in k + 1 .. Len(toMain') : ~Tells(m)') =>
          (toMain'[k] = "active" <=> capturing' /\ confirmed')
  BY <1>1, <1>2, <1>3, <1>4
<1>7. ~ \A k \in 1 .. Len(toMain') : ~Tells(k)'
  BY <1>1, <1>2, <1>5
<1>8. QED
  BY <1>6, <1>7 DEF ReportsTell

\* An error says nothing of the capture.
LEMMA ErrorTellsNothing ==
  ASSUME MicTypes, ReportsTell, toMain' = Append(toMain, "error"),
         UNCHANGED <<capturing, confirmed, listening>>
  PROVE  ReportsTell'
<1>0. PICK n \in Nat : n = Len(toMain)
  BY DEF MicTypes
<1>1. /\ Len(toMain') = n + 1 /\ toMain'[n + 1] = "error"
      /\ \A k \in 1 .. n : toMain'[k] = toMain[k]
  BY <1>0 DEF MicTypes, Mic!Reports
<1>2. ~Tells(n + 1)' /\ \A k \in 1 .. n : Tells(k)' <=> Tells(k)
  BY <1>1 DEF Tells
<1>3. ASSUME NEW k \in 1 .. n + 1, Tells(k)', \A m \in k + 1 .. n + 1 : ~Tells(m)'
      PROVE  toMain'[k] = "active" <=> capturing' /\ confirmed'
  <2>1. k \in 1 .. n
    BY <1>1, <1>2, <1>3
  <2>2. \A m \in k + 1 .. n : m \in 1 .. n /\ m \in k + 1 .. n + 1
    BY <1>1, <2>1
  <2>3. Tells(k) /\ \A m \in k + 1 .. n : ~Tells(m)
    BY <1>2, <1>3, <2>1, <2>2
  <2>4. QED
    BY <1>1, <2>1, <2>3, <1>0 DEF ReportsTell
<1>4. ASSUME \A k \in 1 .. n + 1 : ~Tells(k)' PROVE listening' <=> capturing' /\ confirmed'
  <2>1. \A k \in 1 .. n : k \in 1 .. n + 1
    BY <1>1
  <2>2. \A k \in 1 .. n : ~Tells(k)
    BY <1>2, <1>4, <2>1
  <2>3. QED
    BY <2>2, <1>0 DEF ReportsTell
<1>5. QED
  BY <1>1, <1>3, <1>4 DEF ReportsTell

\* The manager follows the first report; those behind it tell as before.
LEMMA ToldByTail ==
  ASSUME MicTypes, ReportsTell, toMain # <<>>, toMain' = Tail(toMain),
         UNCHANGED <<capturing, confirmed>>,
         \/ Head(toMain) = "active" /\ listening' = TRUE
         \/ Head(toMain) = "inactive" /\ listening' = FALSE
         \/ Head(toMain) = "error" /\ listening' = listening
  PROVE  ReportsTell'
<1>0. PICK n \in Nat : n = Len(toMain)
  BY DEF MicTypes
<1>1. /\ n # 0 /\ Len(toMain') = n - 1 /\ Head(toMain) = toMain[1]
      /\ \A k \in 1 .. n - 1 : toMain'[k] = toMain[k + 1]
  BY <1>0 DEF MicTypes
<1>2. \A k \in 1 .. n - 1 : k + 1 \in 1 .. n /\ (Tells(k)' <=> Tells(k + 1))
  BY <1>1 DEF Tells
<1>3. ASSUME NEW k \in 1 .. n - 1, Tells(k)', \A m \in k + 1 .. n - 1 : ~Tells(m)'
      PROVE  toMain'[k] = "active" <=> capturing' /\ confirmed'
  <2>1. ASSUME NEW m \in (k + 1) + 1 .. n PROVE ~Tells(m)
    <3>1. m - 1 \in k + 1 .. n - 1 /\ m - 1 \in 1 .. n - 1 /\ (m - 1) + 1 = m
      BY <1>1, <2>1
    <3>2. QED
      BY <1>2, <1>3, <3>1
  <2>2. k + 1 \in 1 .. n /\ Tells(k + 1)
    BY <1>2, <1>3
  <2>3. toMain[k + 1] = "active" <=> capturing /\ confirmed
    BY <2>1, <2>2, <1>0 DEF ReportsTell
  <2>4. QED
    BY <1>1, <2>3
<1>4. ASSUME \A k \in 1 .. n - 1 : ~Tells(k)' PROVE listening' <=> capturing' /\ confirmed'
  <2>1. \A m \in 2 .. n : m - 1 \in 1 .. n - 1 /\ (m - 1) + 1 = m
    BY <1>1
  <2>2. \A m \in 2 .. n : ~Tells(m)
    BY <1>2, <1>4, <2>1, SMTT(30)
  <2>3. 1 \in 1 .. n /\ 1 + 1 = 2
    BY <1>1
  <2>4. CASE Tells(1)
    <3>1. toMain[1] = "active" <=> capturing /\ confirmed
      BY <2>2, <2>3, <2>4, <1>0 DEF ReportsTell
    <3>2. QED
      BY <1>1, <2>4, <3>1 DEF Tells
  <2>5. CASE ~Tells(1)
    <3>1. \A m \in 1 .. n : m = 1 \/ m \in 2 .. n
      BY <1>1
    <3>2. listening <=> capturing /\ confirmed
      BY <2>2, <2>5, <3>1, <1>0 DEF ReportsTell
    <3>3. QED
      BY <1>1, <2>5, <3>2 DEF Tells
  <2>6. QED
    BY <2>4, <2>5
<1>5. QED
  BY <1>1, <1>3, <1>4 DEF ReportsTell

-----------------------------------------------------------------------------
(* The renderer.                                                           *)

LEMMA BeginStartStep ==
  ASSUME MicInv, ~capturing, Mic!BeginStart("toggle"), UNCHANGED listening
  PROVE  MicInv'
<1> USE DEF MicInv
<1>1. /\ starts' = [starts EXCEPT !["toggle"] = "opening"] /\ confirmed' = FALSE
      /\ crossed' = (crossed \/ ~Mic!NoStart)
      /\ UNCHANGED <<stream, live, taps, capturing, toMain, opened>>
  BY DEF Mic!BeginStart
<1>2. "toggle" \in Mic!Origins
  BY DEF Mic!Origins
<1>3. MicTypes'
  <2>1. starts' \in [Mic!Origins -> {"none", "opening", "resuming"}]
    BY <1>1 DEF MicTypes
  <2>2. QED
    BY <1>1, <2>1 DEF MicTypes
<1>4. ~Mic!NoStart'
  BY <1>1, <1>2 DEF Mic!NoStart, Mic!Idle, MicTypes
<1>5. ASSUME ~crossed' PROVE ~crossed /\ Mic!NoStart
  BY <1>1, <1>5 DEF MicTypes
<1>6. Mic!OffReleasesTheDevice'
  BY <1>1, <1>4, <1>5 DEF Mic!OffReleasesTheDevice
<1>7. ASSUME ~crossed' PROVE StartInOrder' /\ ReportsTell'
  <2>1. /\ starts'["toggle"] = "opening"
        /\ \A o \in Mic!Origins : o # "toggle" => starts'[o] = "none"
        /\ live = {}
    BY <1>1, <1>2, <1>5, <1>7 DEF Mic!NoStart, Mic!Idle, MicTypes, Mic!OffReleasesTheDevice
  <2>2. StartInOrder'
    BY <1>1, <2>1 DEF StartInOrder, Mic!Idle
  <2>3. ReportsTell'
    BY <1>1, <1>5, <1>7 DEF ReportsTell, Tells
  <2>4. QED
    BY <2>2, <2>3
<1>8. QED
  BY <1>3, <1>6, <1>7

\* Stopping a capture releases its stream.
LEMMA StopStep ==
  ASSUME MicInv, capturing, Mic!StopRecording, Mic!Report("inactive"), UNCHANGED listening
  PROVE  MicInv'
<1> USE DEF MicInv
<1>1. /\ capturing' = FALSE /\ live' = live \ {stream} /\ stream' = 0 /\ taps' = 0
      /\ toMain' = Append(toMain, "inactive")
      /\ UNCHANGED <<starts, confirmed, opened, crossed>>
  BY DEF Mic!StopRecording, Mic!TracksLeft, Mic!Report, Mic!NoStream
<1>2. MicTypes'
  <2>1. toMain' \in Seq(Mic!Reports)
    BY <1>1 DEF MicTypes, Mic!Reports
  <2>2. QED
    BY <1>1, <2>1 DEF MicTypes
<1>3. ASSUME ~crossed PROVE Mic!NoStart /\ live = {stream}
  BY <1>3 DEF StartInOrder, Mic!OffReleasesTheDevice
<1>4. Mic!OffReleasesTheDevice'
  BY <1>1, <1>3 DEF Mic!OffReleasesTheDevice
<1>5. ASSUME ~crossed PROVE StartInOrder'
  BY <1>1, <1>3, <1>5 DEF StartInOrder, Mic!NoStart, Mic!Idle
<1>6. ReportsTell'
  BY <1>1, ToldByAppend
<1>7. QED
  BY <1>1, <1>2, <1>4, <1>5, <1>6

LEMMA StreamOpenedStep ==
  ASSUME MicInv, NEW o \in Mic!Origins, Mic!StreamOpened(o), UNCHANGED listening
  PROVE  MicInv'
<1> USE DEF MicInv
<1>1. /\ starts[o] = "opening" /\ starts' = [starts EXCEPT ![o] = "resuming"]
      /\ opened' = opened + 1 /\ stream' = opened' /\ live' = live \cup {opened'}
      /\ UNCHANGED <<taps, capturing, confirmed, toMain, crossed>>
  BY DEF Mic!StreamOpened
<1>2. starts'[o] = "resuming" /\ \A p \in Mic!Origins : p # o => starts'[p] = starts[p]
  BY <1>1 DEF MicTypes
<1>3. MicTypes'
  <2>1. starts' \in [Mic!Origins -> {"none", "opening", "resuming"}]
    BY <1>1 DEF MicTypes
  <2>2. opened' \in Nat /\ stream' \in Nat /\ live' \subseteq Nat
    BY <1>1 DEF MicTypes
  <2>3. QED
    BY <1>1, <2>1, <2>2 DEF MicTypes
<1>4. ~Mic!NoStart /\ ~Mic!NoStart' /\ ~Mic!Idle(o)
  BY <1>1, <1>2 DEF Mic!NoStart, Mic!Idle
<1>5. Mic!OffReleasesTheDevice'
  BY <1>1, <1>4 DEF Mic!OffReleasesTheDevice
<1>6. ASSUME ~crossed PROVE StartInOrder' /\ ReportsTell'
  <2>1. StartInOrder /\ live = {} /\ ~capturing /\ ~confirmed
    BY <1>1, <1>4, <1>6 DEF StartInOrder
  <2>2. \A p \in Mic!Origins : p # o => starts'[p] = "none"
    BY <1>2, <1>4, <2>1 DEF StartInOrder, Mic!Idle
  <2>3. stream' # Mic!NoStream /\ live' = {stream'}
    BY <1>1, <2>1 DEF MicTypes, Mic!NoStream
  <2>4. StartInOrder'
    BY <1>1, <1>2, <2>1, <2>2, <2>3 DEF StartInOrder, Mic!Idle
  <2>5. ReportsTell'
    BY <1>1, <1>6 DEF ReportsTell, Tells
  <2>6. QED
    BY <2>4, <2>5
<1>7. QED
  BY <1>1, <1>3, <1>5, <1>6

\* A start that fails had no stream, unless starts overlapped.
LEMMA StartFailsStep ==
  ASSUME MicInv, NEW o \in Mic!Origins, Mic!StartFails(o),
         starts[o] = "opening" \/ (starts[o] = "resuming" /\ stream = Mic!NoStream),
         UNCHANGED listening
  PROVE  MicInv'
<1> USE DEF MicInv
<1>1. /\ starts' = [starts EXCEPT ![o] = "none"] /\ toMain' = Append(toMain, "error")
      /\ UNCHANGED <<stream, live, taps, capturing, confirmed, opened, crossed>>
  BY DEF Mic!StartFails, Mic!Report
<1>2. starts'[o] = "none" /\ \A p \in Mic!Origins : p # o => starts'[p] = starts[p]
  BY <1>1 DEF MicTypes
<1>3. MicTypes'
  <2>1. starts' \in [Mic!Origins -> {"none", "opening", "resuming"}]
    BY <1>1 DEF MicTypes
  <2>2. toMain' \in Seq(Mic!Reports)
    BY <1>1 DEF MicTypes, Mic!Reports
  <2>3. QED
    BY <1>1, <2>1, <2>2 DEF MicTypes
<1>4. ~Mic!NoStart /\ ~Mic!Idle(o)
  BY DEF Mic!NoStart, Mic!Idle
<1>5. ASSUME ~crossed
      PROVE  live = {} /\ ~capturing /\ taps = 0 /\ \A p \in Mic!Origins : starts'[p] = "none"
  BY <1>2, <1>4, <1>5 DEF StartInOrder, Mic!OffReleasesTheDevice, Mic!Idle
<1>6. Mic!OffReleasesTheDevice'
  BY <1>1, <1>5 DEF Mic!OffReleasesTheDevice
<1>7. ASSUME ~crossed PROVE StartInOrder' /\ ReportsTell'
  <2>1. StartInOrder'
    BY <1>1, <1>5, <1>7 DEF StartInOrder, Mic!NoStart, Mic!Idle
  <2>2. ReportsTell'
    BY <1>1, <1>7, ErrorTellsNothing
  <2>3. QED
    BY <2>1, <2>2
<1>8. QED
  BY <1>1, <1>3, <1>6, <1>7

\* The capture begins, and is not confirmed yet.
LEMMA ReadyStep ==
  ASSUME MicInv, NEW o \in Mic!Origins, starts[o] = "resuming",
         starts' = [starts EXCEPT ![o] = "none"], taps' = taps + 1, capturing' = TRUE,
         UNCHANGED <<stream, live, confirmed, toMain, opened, crossed, listening>>
  PROVE  MicInv'
<1> USE DEF MicInv
<1>1. starts'[o] = "none" /\ \A p \in Mic!Origins : p # o => starts'[p] = starts[p]
  BY DEF MicTypes
<1>2. MicTypes'
  <2>1. starts' \in [Mic!Origins -> {"none", "opening", "resuming"}]
    BY DEF MicTypes
  <2>2. taps' \in Nat
    BY DEF MicTypes
  <2>3. QED
    BY <2>1, <2>2 DEF MicTypes
<1>3. ~Mic!NoStart /\ ~Mic!Idle(o)
  BY DEF Mic!NoStart, Mic!Idle
<1>4. ASSUME ~crossed
      PROVE  /\ live = {stream} /\ ~capturing /\ ~confirmed /\ taps = 0
             /\ \A p \in Mic!Origins : starts'[p] = "none"
  BY <1>1, <1>3, <1>4 DEF StartInOrder, Mic!OffReleasesTheDevice, Mic!Idle
<1>5. Mic!OffReleasesTheDevice'
  BY <1>4 DEF Mic!OffReleasesTheDevice
<1>6. ASSUME ~crossed PROVE StartInOrder' /\ ReportsTell'
  <2>1. StartInOrder'
    BY <1>4, <1>6 DEF StartInOrder, Mic!NoStart, Mic!Idle
  <2>2. ReportsTell'
    BY <1>4, <1>6 DEF ReportsTell, Tells
  <2>3. QED
    BY <2>1, <2>2
<1>7. QED
  BY <1>2, <1>5, <1>6

\* The first frame confirms it.
LEMMA FirstFrameStep ==
  ASSUME MicInv, Mic!FirstFrame, UNCHANGED listening
  PROVE  MicInv'
<1> USE DEF MicInv
<1>1. /\ taps > 0 /\ confirmed' = TRUE /\ toMain' = Append(toMain, "active")
      /\ UNCHANGED <<starts, stream, live, taps, capturing, opened, crossed>>
  BY DEF Mic!FirstFrame, Mic!Report
<1>2. MicTypes'
  <2>1. toMain' \in Seq(Mic!Reports)
    BY <1>1 DEF MicTypes, Mic!Reports
  <2>2. QED
    BY <1>1, <2>1 DEF MicTypes
<1>3. Mic!OffReleasesTheDevice'
  BY <1>1 DEF Mic!OffReleasesTheDevice, Mic!NoStart, Mic!Idle
<1>4. ASSUME ~crossed PROVE StartInOrder' /\ ReportsTell'
  <2>1. capturing /\ Mic!NoStart
    BY <1>1, <1>4 DEF Mic!OffReleasesTheDevice, StartInOrder, MicTypes
  <2>2. StartInOrder'
    BY <1>1, <1>4, <2>1 DEF StartInOrder, Mic!NoStart, Mic!Idle
  <2>3. ReportsTell'
    BY <1>1, <2>1, ToldByAppend
  <2>4. QED
    BY <2>2, <2>3
<1>5. QED
  BY <1>1, <1>2, <1>3, <1>4

-----------------------------------------------------------------------------
(* The manager.                                                            *)

\* The manager's own steps change what it shows; a diagnostic does not touch listening.
LEMMA ManagerStep ==
  ASSUME MicInv, UNCHANGED <<Mic!captureVars, listening>>
  PROVE  MicInv'
<1>1. UNCHANGED <<starts, stream, live, taps, capturing, confirmed, toMain, opened, crossed>>
  BY DEF Mic!captureVars
<1>2. MicTypes' /\ Mic!OffReleasesTheDevice'
  BY <1>1 DEF MicInv, MicTypes, Mic!OffReleasesTheDevice, Mic!NoStart, Mic!Idle
<1>3. ASSUME ~crossed PROVE StartInOrder' /\ ReportsTell'
  BY <1>1, <1>3 DEF MicInv, StartInOrder, ReportsTell, Mic!NoStart, Mic!Idle, Tells
<1>4. QED
  BY <1>1, <1>2, <1>3 DEF MicInv

LEMMA OnReportStep == ASSUME MicInv, Mic!OnReport PROVE MicInv'
<1>1. /\ toMain # <<>> /\ toMain' = Tail(toMain)
      /\ UNCHANGED <<starts, stream, live, taps, capturing, confirmed, opened, crossed>>
  BY DEF Mic!OnReport
<1>2. \/ Head(toMain) = "active" /\ listening' = TRUE
      \/ Head(toMain) = "inactive" /\ listening' = FALSE
      \/ Head(toMain) = "error" /\ listening' = listening
  BY DEF Mic!OnReport, Mic!ReportListening, Mic!ReportStoppedListening, Mic!ReportError
<1>3. MicTypes'
  <2>1. toMain' \in Seq(Mic!Reports)
    BY <1>1 DEF MicInv, MicTypes
  <2>2. listening' \in BOOLEAN
    BY <1>2 DEF MicInv, MicTypes
  <2>3. QED
    BY <1>1, <2>1, <2>2 DEF MicInv, MicTypes
<1>4. Mic!OffReleasesTheDevice' /\ (~crossed => StartInOrder')
  BY <1>1 DEF MicInv, Mic!OffReleasesTheDevice, StartInOrder, Mic!NoStart, Mic!Idle
<1>5. ~crossed => ReportsTell'
  BY <1>1, <1>2, ToldByTail DEF MicInv
<1>6. QED
  BY <1>1, <1>3, <1>4, <1>5 DEF MicInv

LEMMA MicStep == MicInv /\ [Mic!Next]_(Mic!vars) => MicInv'
<1> SUFFICES ASSUME MicInv, [Mic!Next]_(Mic!vars) PROVE MicInv'
  OBVIOUS
<1>1. CASE Mic!RendererStep
  <2>0. UNCHANGED listening
    BY <1>1 DEF Mic!RendererStep, Mic!managerVars
  <2>1. CASE Mic!OnToggleRequest
    BY <2>0, <2>1, BeginStartStep, StopStep DEF Mic!OnToggleRequest
  <2>2. CASE Mic!FirstFrame
    BY <2>0, <2>2, FirstFrameStep
  <2>3. ASSUME NEW o \in Mic!Origins, Mic!StreamOpened(o) PROVE MicInv'
    BY <2>0, <2>3, StreamOpenedStep
  <2>4. ASSUME NEW o \in Mic!Origins, Mic!StreamRefused(o) PROVE MicInv'
    BY <2>0, <2>4, StartFailsStep DEF Mic!StreamRefused
  <2>5. ASSUME NEW o \in Mic!Origins, Mic!ContextReady(o) PROVE MicInv'
    <3>1. CASE stream = Mic!NoStream
      BY <2>0, <2>5, <3>1, StartFailsStep DEF Mic!ContextReady
    <3>2. CASE stream # Mic!NoStream
      BY <2>0, <2>5, <3>2, ReadyStep DEF Mic!ContextReady
    <3>3. QED
      BY <3>1, <3>2
  <2>6. QED
    BY <1>1, <2>1, <2>2, <2>3, <2>4, <2>5 DEF Mic!RendererStep
<1>2. CASE \/ Mic!DevicesListed \/ Mic!DevicesFail \/ Mic!DefaultKnown
           \/ Mic!RunDiagnostic \/ Mic!DiagnosticOk \/ Mic!DiagnosticFails
  <2>1. UNCHANGED <<Mic!captureVars, listening>>
    BY <1>2 DEF Mic!DevicesListed, Mic!DevicesFail, Mic!DefaultKnown,
                  Mic!RunDiagnostic, Mic!DiagnosticOk, Mic!DiagnosticFails
  <2>2. QED
    BY <2>1, ManagerStep
<1>3. CASE Mic!OnReport
  BY <1>3, OnReportStep
<1>4. CASE UNCHANGED Mic!vars
  BY <1>4, ManagerStep DEF Mic!vars, Mic!managerVars
<1>5. QED
  BY <1>1, <1>2, <1>3, <1>4 DEF Mic!Next

-----------------------------------------------------------------------------

\* A microphone that is off, and not on its way, holds no stream, and one that is on
\* delivers each frame once, as long as no two starts overlapped (audio_recorder.ts:78).
THEOREM OffReleases == Mic!Spec => []OffReleasesTheDevice
<1>1. MicInv => OffReleasesTheDevice
  BY DEF MicInv, OffReleasesTheDevice
<1>2. QED
  BY <1>1, MicInit, MicStep, PTL DEF Mic!Spec

\* The manager's state reflects the real capture once no report is under way
\* (main.ts:1066-1069).
THEOREM ListeningIsTrue == Mic!Spec => []ListeningIsCapture
<1>1. MicInv => ListeningIsCapture
  <2>1. ASSUME MicInv, ~crossed, toMain = <<>> PROVE listening <=> capturing /\ confirmed
    <3>1. \A k \in 1 .. Len(toMain) : ~Tells(k)
      BY <2>1
    <3>2. QED
      BY <2>1, <3>1 DEF MicInv, ReportsTell
  <2>2. QED
    BY <2>1 DEF ListeningIsCapture, Mic!ListeningIsCapture
<1>2. QED
  BY <1>1, MicInit, MicStep, PTL DEF Mic!Spec

-----------------------------------------------------------------------------
(* Who is speaking                                                         *)

\* No silence is held over after a report of speech.
HoldInv == ~hasty /\ (hold => ~last)

\* An utterance ends only when its silence was held, in whatever order reports come and
\* the hold runs out (voice_processor.ts).
THEOREM EndsAfterSilence == A!Spec => []EndsFollowSilence
<1>1. A!Init => HoldInv
  BY DEF A!Init, HoldInv
<1>2. HoldInv /\ [A!Next]_(A!vars) => HoldInv'
  <2> SUFFICES ASSUME HoldInv, [A!Next]_(A!vars) PROVE HoldInv'
    OBVIOUS
  <2>1. CASE UNCHANGED A!main
    BY <2>1 DEF A!main, HoldInv
  <2>2. CASE A!OnReport
    <3>1. CASE Head(reports)
      BY <2>2, <3>1 DEF A!OnReport, A!SpeechReported, HoldInv
    <3>2. CASE ~Head(reports)
      BY <2>2, <3>2 DEF A!OnReport, A!SilenceReported, HoldInv
    <3>3. QED
      BY <3>1, <3>2
  <2>3. CASE A!HoldOver
    BY <2>3 DEF A!HoldOver, HoldInv
  <2>4. QED
    BY <2>1, <2>2, <2>3
       DEF A!Next, A!vars, A!LoudFrame, A!QuietFrame, A!SilenceTimer, A!Toggle, A!OnPushed,
           A!Played, A!Talk, A!FallSilent, A!AiAudioChunk, A!ServerEnds
<1>3. HoldInv => EndsFollowSilence
  BY DEF HoldInv, EndsFollowSilence, A!EndsFollowSilence
<1>4. QED
  BY <1>1, <1>2, <1>3, PTL DEF A!Spec

-----------------------------------------------------------------------------
(* Local transcription.                                                    *)

Resetting == stdin # <<>> /\ stdin[1].method = "whisper.reset"
Ending == stdin # <<>> /\ stdin[1].method = "whisper.audio" /\ stdin[1].speech_end
Ends == queuedEnd \/ Resetting \/ Ending

\* Only the last request can be awaited, and is while the bridge is flushing.
OneAwaited ==
  /\ \A i \in 1 .. Len(stdin) : stdin[i].awaited => i = Len(stdin) /\ flushing
  /\ flushing => stdin # <<>> /\ stdin[Len(stdin)].awaited
  /\ queuedEnd => flushing

\* Before the model is loaded nothing is passed on.
BeforeWarmUp ==
  ~localWhisperActive =>
    /\ 1 .. spoken \subseteq unheard
    /\ pending = {} /\ audio = {} /\ stdin = <<>> /\ ~flushing /\ ~queuedEnd

NotIn(texts, S) == \A k \in DOMAIN texts : texts[k] \cap S = {}

\* The audio of these requests was recorded, and is in none of these texts.
NotYetIn(texts, requests, n) ==
  \A i \in 1 .. Len(requests) :
    requests[i].method = "whisper.audio" =>
      requests[i].pcm \subseteq 1 .. n /\ NotIn(texts, requests[i].pcm)

\* What is in a final text is nowhere else, or in a worker that forgets it next.
HeardIsGone ==
  /\ \A k \in DOMAIN finals : finals[k] \subseteq 1 .. spoken
  /\ \A k, l \in DOMAIN finals : k # l => finals[k] \cap finals[l] = {}
  /\ pending \subseteq 1 .. spoken /\ NotIn(finals, pending)
  /\ NotYetIn(finals, stdin, spoken)
  /\ audio \subseteq 1 .. spoken
  /\ ~Resetting => NotIn(finals, audio)

\* The audio under way, but for what the worker forgets next.
InWorker == IF stdin = <<>> THEN audio ELSE IF Resetting THEN {} ELSE audio \cup stdin[1].pcm
InHand == InWorker \cup pending

Over(u) == u < utterance \/ (u = utterance /\ ~talking)
Silent(S) == \A i \in S : talker[i] = Nobody

FinalsWhole ==
  \A k \in DOMAIN finals :
    \E u \in Utterances : Over(u) /\ Of(finals[k]) = {u} /\ (cut \/ Passed(u) \subseteq finals[k])

\* An utterance is under way as a whole; while its end is served nobody talks.
WholeUtterances ==
  /\ Len(stdin) <= 1 /\ (stdin # <<>> => flushing)
  /\ ~queuedEnd \/ ~(Resetting \/ Ending)
  /\ ~Ends => /\ \A i \in InHand : talker[i] \in {Nobody, utterance}
              /\ talking => Passed(utterance) \subseteq InHand
              /\ ~talking => Silent(InHand)
  /\ Ends /\ talking => Passed(utterance) = {}
  /\ Resetting \/ Ending => Silent(pending)
  /\ queuedEnd \/ Ending =>
       \E u \in Utterances : /\ Over(u) /\ Passed(u) \subseteq InHand
                             /\ \A i \in InHand : talker[i] \in {Nobody, u}
  /\ FinalsWhole

BridgeInv ==
  /\ TypeOK /\ OneAwaited /\ BeforeWarmUp /\ HeardIsGone
  /\ \A i \in 1 .. spoken : talker[i] <= utterance
  /\ talking => utterance \in Utterances

WordsInv ==
  /\ BridgeInv
  /\ ~overlapped /\ failed = 0 => WholeUtterances

-----------------------------------------------------------------------------

LEMMA RequestKinds ==
  ASSUME NEW r \in Requests
  PROVE  /\ r.awaited \in BOOLEAN
         /\ r.method = "whisper.audio" =>
              r.pcm \in SUBSET Chunks /\ r.speech_end \in BOOLEAN
         /\ r.method \in {"whisper.audio", "whisper.reset"}
         /\ [r EXCEPT !.awaited = FALSE] \in Requests
         /\ LET s == [r EXCEPT !.awaited = FALSE] IN
              /\ s.method = r.method /\ ~s.awaited
              /\ r.method = "whisper.audio" => s.pcm = r.pcm
<1>1. CASE r \in [method : {"whisper.audio"}, pcm : SUBSET Chunks, speech_end : BOOLEAN,
                  awaited : BOOLEAN]
  BY <1>1 DEF Requests
<1>2. CASE r \in [method : {"whisper.reset"}, awaited : BOOLEAN]
  BY <1>2 DEF Requests
<1>3. QED
  BY <1>1, <1>2 DEF Requests

LEMMA Queued ==
  ASSUME NEW S, NEW s \in Seq(S), NEW e \in S
  PROVE  /\ Append(s, e) \in Seq(S) /\ Append(s, e) # <<>>
         /\ Len(Append(s, e)) = Len(s) + 1 /\ Append(s, e)[Len(s) + 1] = e
         /\ \A i \in 1 .. Len(s) : Append(s, e)[i] = s[i]
         /\ Len(s) \in Nat /\ (s = <<>> <=> Len(s) = 0)
OBVIOUS

LEMMA Unqueued ==
  ASSUME NEW S, NEW s \in Seq(S), s # <<>>
  PROVE  /\ Tail(s) \in Seq(S) /\ Head(s) = s[1] /\ s[1] \in S
         /\ Len(s) \in Nat /\ Len(s) >= 1 /\ Len(Tail(s)) = Len(s) - 1
         /\ \A i \in 1 .. Len(s) - 1 : Tail(s)[i] = s[i + 1]
         /\ 1 = Len(s) => Tail(s) = <<>>
<1>1. ASSUME NEW t \in Seq(S), Len(t) = Len(s) - 1, 1 = Len(s) PROVE t = <<>>
  BY <1>1
<1>2. /\ Tail(s) \in Seq(S) /\ Head(s) = s[1] /\ s[1] \in S
      /\ Len(s) \in Nat /\ Len(s) >= 1 /\ Len(Tail(s)) = Len(s) - 1
      /\ \A i \in 1 .. Len(s) - 1 : Tail(s)[i] = s[i + 1]
  OBVIOUS
<1>3. QED
  BY <1>1, <1>2, Zenon

Sent(p, e) == [method |-> "whisper.audio", pcm |-> p, speech_end |-> e, awaited |-> TRUE]

LEMMA SentTypes == ASSUME NEW p \in SUBSET Chunks, NEW e \in BOOLEAN PROVE Sent(p, e) \in Requests
BY DEF Sent, Requests

Unawaited(requests) == \A i \in 1 .. Len(requests) : ~requests[i].awaited

\* A flush appends one request, which is the awaited one.
LEMMA FlushEffect ==
  ASSUME NEW q \in Seq(Requests), NEW p \in SUBSET Chunks, NEW e \in BOOLEAN, Flush(q, p, e),
         Unawaited(q)
  PROVE  /\ stdin' \in Seq(Requests) /\ stdin' # <<>> /\ Len(stdin') = Len(q) + 1
         /\ stdin'[Len(q) + 1] = Sent(p, e) /\ (\A i \in 1 .. Len(q) : stdin'[i] = q[i])
         /\ OneAwaited' /\ flushing' = TRUE /\ queuedEnd' = FALSE /\ pending' = {}
<1>1. stdin' = Append(q, Sent(p, e)) /\ flushing' = TRUE /\ queuedEnd' = FALSE /\ pending' = {}
  BY DEF Flush, Sent
<1>2. Sent(p, e) \in Requests /\ Sent(p, e).awaited
  BY SentTypes DEF Sent
<1>3. /\ stdin' \in Seq(Requests) /\ stdin' # <<>> /\ Len(stdin') = Len(q) + 1 /\ Len(q) \in Nat
      /\ stdin'[Len(q) + 1] = Sent(p, e) /\ \A i \in 1 .. Len(q) : stdin'[i] = q[i]
  BY <1>1, <1>2, Queued
<1>4. \A i \in 1 .. Len(q) + 1 : i \in 1 .. Len(q) \/ i = Len(q) + 1
  BY <1>3
<1>5. OneAwaited'
  BY <1>1, <1>2, <1>3, <1>4 DEF OneAwaited, Unawaited
<1>6. QED
  BY <1>1, <1>3, <1>5

LEMMA FlushGone ==
  ASSUME NEW texts, NEW n, NEW q \in Seq(Requests), NEW p \in SUBSET Chunks, NEW e \in BOOLEAN,
         Flush(q, p, e), Unawaited(q),
         NotYetIn(texts, q, n), p \subseteq 1 .. n, NotIn(texts, p)
  PROVE  NotYetIn(texts, stdin', n)
<1>1. Len(q) \in Nat /\ \A i \in 1 .. Len(q) + 1 : i \in 1 .. Len(q) \/ i = Len(q) + 1
  OBVIOUS
<1>2. Sent(p, e).pcm = p
  BY DEF Sent
<1>3. /\ Len(stdin') = Len(q) + 1 /\ stdin'[Len(q) + 1] = Sent(p, e)
      /\ \A i \in 1 .. Len(q) : stdin'[i] = q[i]
  BY FlushEffect
<1>4. SUFFICES ASSUME NEW i \in 1 .. Len(q) + 1, stdin'[i].method = "whisper.audio"
               PROVE  stdin'[i].pcm \subseteq 1 .. n /\ NotIn(texts, stdin'[i].pcm)
  BY <1>3 DEF NotYetIn
<1>5. CASE i \in 1 .. Len(q)
  BY <1>3, <1>4, <1>5 DEF NotYetIn
<1>6. CASE i = Len(q) + 1
  BY <1>2, <1>3, <1>6
<1>7. QED
  BY <1>1, <1>5, <1>6

\* After a request the bridge flushes what came meanwhile, or is free.
LEMMA FinallyEffect ==
  ASSUME TypeOK, NEW q \in Seq(Requests), Unawaited(q), Finally(q)
  PROVE  /\ stdin' \in Seq(Requests) /\ OneAwaited'
         /\ flushing' \in BOOLEAN /\ queuedEnd' = FALSE
         /\ \/ Flush(q, pending, queuedEnd)
            \/ stdin' = q /\ pending' = pending /\ ~queuedEnd /\ flushing' = FALSE
<1>1. pending \in SUBSET Chunks /\ queuedEnd \in BOOLEAN
  BY DEF TypeOK
<1>2. CASE Flush(q, pending, queuedEnd)
  BY <1>1, <1>2, FlushEffect
<1>3. CASE stdin' = q /\ pending' = pending /\ ~queuedEnd /\ queuedEnd' = queuedEnd /\ flushing' = FALSE
  <2>1. OneAwaited'
    BY <1>3 DEF OneAwaited, Unawaited
  <2>2. QED
    BY <1>1, <1>3, <2>1
<1>4. QED
  BY <1>2, <1>3 DEF Finally

\* Nothing that was heard comes back by that.
LEMMA FinallyGone ==
  ASSUME TypeOK, NEW q \in Seq(Requests), Unawaited(q), Finally(q),
         NotYetIn(finals, q, spoken), pending \subseteq 1 .. spoken, NotIn(finals, pending)
  PROVE  /\ NotYetIn(finals, stdin', spoken)
         /\ pending' \subseteq 1 .. spoken /\ NotIn(finals, pending')
         /\ pending' \subseteq Chunks
         /\ q # <<>> => stdin' # <<>> /\ stdin'[1] = q[1]
<1>1. pending \in SUBSET Chunks /\ queuedEnd \in BOOLEAN
  BY DEF TypeOK
<1>2. CASE Flush(q, pending, queuedEnd)
  <2>1. q # <<>> => 1 \in 1 .. Len(q)
    OBVIOUS
  <2>2. QED
    BY <1>1, <1>2, <2>1, FlushEffect, FlushGone DEF NotIn
<1>3. CASE stdin' = q /\ pending' = pending
  BY <1>1, <1>3
<1>4. QED
  BY <1>2, <1>3, FinallyEffect

LEMMA WordsBegin == Init => WordsInv
<1> SUFFICES ASSUME Init PROVE WordsInv
  OBVIOUS
<1> USE BoundsAssumption DEF Init
<1>1. TypeOK
  <2>1. talker \in [Chunks -> Utterances \cup {Nobody}] /\ 0 \in 0 .. MaxChunks /\ 0 \in Nat
    OBVIOUS
  <2>2. stdin \in Seq(Requests) /\ finals \in Seq(SUBSET Chunks)
    OBVIOUS
  <2>3. QED
    BY <2>1, <2>2 DEF TypeOK
<1>2. OneAwaited /\ BeforeWarmUp
  BY DEF OneAwaited, BeforeWarmUp
<1>3. HeardIsGone
  BY DEF HeardIsGone, NotIn, NotYetIn, Resetting
<1>4. WholeUtterances
  BY DEF WholeUtterances, FinalsWhole, Resetting, Ending, Ends, InHand, InWorker, Silent
<1>5. \A i \in 1 .. spoken : talker[i] <= utterance
  OBVIOUS
<1>6. QED
  BY <1>1, <1>2, <1>3, <1>4, <1>5 DEF WordsInv, BridgeInv

LEMMA WarmedUpKeeps == ASSUME BridgeInv, WarmedUp PROVE BridgeInv'
<1> USE DEF BridgeInv, WarmedUp, worker, speaker, history
<1>1. TypeOK' /\ OneAwaited' /\ BeforeWarmUp'
  BY DEF TypeOK, OneAwaited, BeforeWarmUp
<1>2. HeardIsGone'
  BY DEF HeardIsGone, NotIn, NotYetIn, Resetting
<1>3. QED
  BY <1>1, <1>2

LEMMA StartSpeakingKeeps == ASSUME BridgeInv, StartSpeaking PROVE BridgeInv'
<1> USE DEF BridgeInv, StartSpeaking, bridge, worker, history
<1>1. utterance \in Nat /\ utterance' = utterance + 1 /\ utterance' \in Utterances
  BY BoundsAssumption DEF TypeOK, Utterances, Nobody
<1>2. TypeOK' /\ OneAwaited' /\ BeforeWarmUp'
  BY <1>1 DEF TypeOK, OneAwaited, BeforeWarmUp
<1>3. HeardIsGone'
  BY DEF HeardIsGone, NotIn, NotYetIn, Resetting
<1>4. \A i \in 1 .. spoken : talker[i] \in Nat /\ i \in Chunks
  BY BoundsAssumption, SMTT(30) DEF TypeOK, Chunks, Utterances, Nobody
<1>5. \A i \in 1 .. spoken' : talker'[i] <= utterance'
  BY <1>1, <1>4
<1>6. QED
  BY <1>1, <1>2, <1>3, <1>5

\* A chunk is nobody's before it is recorded.
LEMMA NewChunk ==
  ASSUME BridgeInv, PushAudio
  PROVE  /\ spoken \in Nat /\ spoken' = spoken + 1 /\ spoken' \in Chunks
         /\ 1 .. spoken \subseteq Chunks /\ 1 .. spoken' = (1 .. spoken) \cup {spoken'}
         /\ spoken' \notin 1 .. spoken
         /\ talker' \in [Chunks -> Utterances \cup {Nobody}]
         /\ talker'[spoken'] = IF talking THEN utterance ELSE Nobody
         /\ \A i \in 1 .. spoken : talker'[i] = talker[i]
<1>1. /\ spoken \in Nat /\ spoken' = spoken + 1 /\ spoken' \in Chunks /\ spoken' \notin 1 .. spoken
      /\ 1 .. spoken \subseteq Chunks /\ 1 .. spoken' = (1 .. spoken) \cup {spoken'}
  BY BoundsAssumption DEF BridgeInv, TypeOK, Chunks, PushAudio
<1>2. /\ talker \in [Chunks -> Utterances \cup {Nobody}]
      /\ utterance \in Utterances \cup {Nobody}
      /\ talker' = [talker EXCEPT ![spoken'] = IF talking THEN utterance ELSE Nobody]
  BY DEF BridgeInv, TypeOK, PushAudio
<1>3. QED
  BY <1>1, <1>2

LEMMA MoreSpoken ==
  ASSUME NEW texts, NEW requests, NEW n \in Nat, NotYetIn(texts, requests, n)
  PROVE  NotYetIn(texts, requests, n + 1)
<1>1. 1 .. n \subseteq 1 .. n + 1
  OBVIOUS
<1>2. QED
  BY <1>1 DEF NotYetIn

LEMMA PushAudioKeeps == ASSUME BridgeInv, PushAudio PROVE BridgeInv'
<1> DEFINE n == spoken + 1
<1>0. /\ spoken \in Nat /\ spoken' = n /\ n \in Chunks /\ 1 .. spoken \subseteq Chunks
      /\ 1 .. n = (1 .. spoken) \cup {n} /\ n \notin 1 .. spoken
      /\ talker' \in [Chunks -> Utterances \cup {Nobody}]
      /\ talker'[n] = IF talking THEN utterance ELSE Nobody
      /\ \A i \in 1 .. spoken : talker'[i] = talker[i]
  BY NewChunk
<1> HIDE DEF n
<1>1. /\ localWhisperActive' = localWhisperActive /\ audio' = audio /\ utterance' = utterance
      /\ talking' = talking /\ finals' = finals /\ ended' = ended /\ failed' = failed /\ cut' = cut
  BY DEF PushAudio
<1>2. \A i \in 1 .. spoken' : talker'[i] <= utterance'
  <2>1. utterance \in Nat
    BY BoundsAssumption DEF BridgeInv, TypeOK, Utterances, Nobody
  <2>2. talker'[n] <= utterance
    BY <1>0, <2>1 DEF Nobody
  <2>3. QED
    BY <1>0, <1>1, <2>2 DEF BridgeInv
<1>3. talking' => utterance' \in Utterances
  BY <1>1 DEF BridgeInv
<1>4. spoken' \in 0 .. MaxChunks
  BY <1>0, BoundsAssumption DEF Chunks
<1>5. ASSUME /\ flushing' \in BOOLEAN /\ queuedEnd' \in BOOLEAN /\ overlapped' \in BOOLEAN
             /\ pending' \subseteq (1 .. spoken) \cup {n} /\ NotIn(finals, pending' \ {n})
             /\ unheard' \subseteq Chunks
             /\ stdin' \in Seq(Requests) /\ OneAwaited' /\ BeforeWarmUp'
             /\ NotYetIn(finals, stdin', n) /\ (Resetting => Resetting')
      PROVE  BridgeInv'
  <2>1. TypeOK'
    <3>1. pending' \subseteq Chunks
      BY <1>0, <1>5
    <3>2. QED
      BY <1>0, <1>1, <1>4, <1>5, <3>1 DEF BridgeInv, TypeOK
  <2>2. HeardIsGone'
    <3>1. \A k \in DOMAIN finals : finals[k] \subseteq 1 .. spoken
      BY DEF BridgeInv, HeardIsGone
    <3>2. NotIn(finals, pending')
      BY <1>0, <1>5, <3>1 DEF NotIn
    <3>3. (\A k \in DOMAIN finals : finals[k] \subseteq 1 .. n) /\ audio \subseteq 1 .. n
      BY <1>0, <3>1 DEF BridgeInv, HeardIsGone
    <3>4. QED
      BY <1>0, <1>1, <1>5, <3>2, <3>3 DEF BridgeInv, HeardIsGone
  <2>3. QED
    BY <1>2, <1>3, <1>5, <2>1, <2>2 DEF BridgeInv
<1>6. CASE ~localWhisperActive
  <2>1. /\ unheard' = unheard \cup {n}
        /\ UNCHANGED <<pending, flushing, queuedEnd, stdin, overlapped>>
    BY <1>0, <1>6 DEF PushAudio
  <2>2. pending' \subseteq (1 .. spoken) \cup {n} /\ NotIn(finals, pending' \ {n})
    BY <2>1, <1>6 DEF BridgeInv, BeforeWarmUp, NotIn
  <2>3. OneAwaited' /\ (Resetting => Resetting')
    BY <2>1 DEF BridgeInv, OneAwaited, Resetting
  <2>4. BeforeWarmUp'
    BY <1>0, <1>1, <2>1 DEF BridgeInv, BeforeWarmUp
  <2>5. NotYetIn(finals, stdin', n)
    BY <1>0, <2>1, MoreSpoken DEF BridgeInv, HeardIsGone, n
  <2>6. unheard' \subseteq Chunks /\ stdin' \in Seq(Requests)
    BY <1>0, <2>1 DEF BridgeInv, TypeOK
  <2>7. QED
    BY <1>5, <2>1, <2>2, <2>3, <2>4, <2>5, <2>6 DEF BridgeInv, TypeOK
<1>7. CASE localWhisperActive
  <2>1. unheard' = unheard /\ unheard' \subseteq Chunks /\ BeforeWarmUp' /\ overlapped' \in BOOLEAN
    BY <1>1, <1>7 DEF PushAudio, BridgeInv, TypeOK, BeforeWarmUp, EndUnderWay
  <2>2. /\ pending \subseteq 1 .. spoken /\ NotIn(finals, pending)
        /\ NotYetIn(finals, stdin, n) /\ stdin \in Seq(Requests)
        /\ \A k \in DOMAIN finals : finals[k] \subseteq 1 .. spoken
    BY <1>0, MoreSpoken DEF BridgeInv, HeardIsGone, TypeOK, n
  <2>3. CASE ~flushing /\ Flush(stdin, pending \cup {n}, FALSE)
    <3>1. Unawaited(stdin)
      BY <2>3 DEF Unawaited, BridgeInv, OneAwaited
    <3>2. pending \cup {n} \in SUBSET Chunks /\ pending \cup {n} \subseteq 1 .. n
      BY <1>0, <2>2
    <3>3. NotIn(finals, pending \cup {n})
      BY <1>0, <2>2 DEF NotIn
    <3>4. NotYetIn(finals, stdin', n)
      BY <2>2, <2>3, <3>1, <3>2, <3>3, FlushGone
    <3>5. /\ stdin' \in Seq(Requests) /\ stdin' # <<>> /\ OneAwaited'
          /\ flushing' = TRUE /\ queuedEnd' = FALSE /\ pending' = {}
          /\ \A i \in 1 .. Len(stdin) : stdin'[i] = stdin[i]
      BY <2>2, <2>3, <3>1, <3>2, FlushEffect
    <3>6. stdin # <<>> => 1 \in 1 .. Len(stdin)
      BY <2>2
    <3>7. Resetting => Resetting'
      BY <3>5, <3>6 DEF Resetting
    <3>8. QED
      BY <1>5, <2>1, <3>4, <3>5, <3>7 DEF NotIn
  <2>4. CASE pending' = pending \cup {n} /\ UNCHANGED <<flushing, queuedEnd, stdin>>
    <3>1. OneAwaited' /\ (Resetting => Resetting')
      BY <2>4 DEF BridgeInv, OneAwaited, Resetting
    <3>2. NotIn(finals, pending' \ {n}) /\ pending' \subseteq (1 .. spoken) \cup {n}
      BY <2>2, <2>4 DEF NotIn
    <3>3. QED
      BY <1>5, <2>1, <2>2, <2>4, <3>1, <3>2 DEF BridgeInv, TypeOK
  <2>5. QED
    BY <1>0, <1>7, <2>3, <2>4 DEF PushAudio
<1>8. QED
  BY <1>6, <1>7 DEF BridgeInv, TypeOK

LEMMA StopSpeakingKeeps == ASSUME BridgeInv, StopSpeaking PROVE BridgeInv'
<1>1. /\ localWhisperActive' = localWhisperActive /\ audio' = audio /\ utterance' = utterance
      /\ talking' = FALSE /\ finals' = finals /\ failed' = failed /\ cut' = cut
      /\ spoken' = spoken /\ talker' = talker /\ unheard' = unheard
  BY DEF StopSpeaking
<1>2. ASSUME /\ flushing' \in BOOLEAN /\ queuedEnd' \in BOOLEAN /\ overlapped' \in BOOLEAN
             /\ pending' \subseteq pending /\ stdin' \in Seq(Requests) /\ OneAwaited'
             /\ BeforeWarmUp' /\ ended' \subseteq Utterances
             /\ NotYetIn(finals, stdin', spoken) /\ (Resetting => Resetting')
      PROVE  BridgeInv'
  <2>1. TypeOK'
    BY <1>1, <1>2 DEF BridgeInv, TypeOK
  <2>2. HeardIsGone'
    BY <1>1, <1>2 DEF BridgeInv, HeardIsGone, NotIn
  <2>3. QED
    BY <1>1, <1>2, <2>1, <2>2 DEF BridgeInv
<1>3. CASE ~localWhisperActive
  <2>1. UNCHANGED <<pending, flushing, queuedEnd, stdin, ended, overlapped>>
    BY <1>3 DEF StopSpeaking
  <2>2. OneAwaited' /\ BeforeWarmUp' /\ (Resetting => Resetting')
    BY <1>1, <2>1 DEF BridgeInv, OneAwaited, BeforeWarmUp, Resetting
  <2>3. QED
    BY <1>2, <2>1, <2>2 DEF BridgeInv, TypeOK, HeardIsGone
<1>4. CASE localWhisperActive
  <2>1. overlapped' = (overlapped \/ EndUnderWay) /\ EndSpeech
        /\ ended' = ended \cup ({utterance} \cap Of((1 .. spoken) \ unheard))
    BY <1>4 DEF StopSpeaking
  <2>2. ended' \subseteq Utterances /\ overlapped' \in BOOLEAN /\ BeforeWarmUp'
    <3>1. utterance \in Utterances
      BY DEF BridgeInv, StopSpeaking
    <3>2. QED
      BY <1>1, <1>4, <2>1, <3>1 DEF BridgeInv, TypeOK, BeforeWarmUp, EndUnderWay
  <2>3. CASE flushing
    <3>1. queuedEnd' = TRUE /\ UNCHANGED <<pending, flushing, stdin>>
      BY <2>1, <2>3 DEF EndSpeech
    <3>2. OneAwaited' /\ (Resetting => Resetting')
      BY <2>3, <3>1 DEF BridgeInv, OneAwaited, Resetting
    <3>3. QED
      BY <1>2, <2>2, <3>1, <3>2 DEF BridgeInv, TypeOK, HeardIsGone
  <2>4. CASE ~flushing
    <3>1. Flush(stdin, pending, TRUE) /\ Unawaited(stdin)
      BY <2>1, <2>4 DEF EndSpeech, Unawaited, BridgeInv, OneAwaited
    <3>2. stdin \in Seq(Requests) /\ pending \in SUBSET Chunks /\ pending \subseteq 1 .. spoken
          /\ NotIn(finals, pending) /\ NotYetIn(finals, stdin, spoken)
      BY DEF BridgeInv, TypeOK, HeardIsGone
    <3>3. NotYetIn(finals, stdin', spoken)
      BY <3>1, <3>2, FlushGone
    <3>4. /\ stdin' \in Seq(Requests) /\ stdin' # <<>> /\ OneAwaited'
          /\ flushing' = TRUE /\ queuedEnd' = FALSE /\ pending' = {}
          /\ \A i \in 1 .. Len(stdin) : stdin'[i] = stdin[i]
      BY <3>1, <3>2, FlushEffect
    <3>5. stdin # <<>> => 1 \in 1 .. Len(stdin)
      BY <3>2
    <3>6. Resetting => Resetting'
      BY <3>4, <3>5 DEF Resetting
    <3>7. QED
      BY <1>2, <2>2, <3>3, <3>4, <3>6
  <2>5. QED
    BY <2>3, <2>4 DEF BridgeInv, TypeOK
<1>5. QED
  BY <1>3, <1>4 DEF BridgeInv, TypeOK

\* What an answer that is not routed leaves to do, when no final text comes.
LEMMA UnansweredEffect ==
  ASSUME BridgeInv, stdin # <<>>, Unanswered(stdin[1])
  PROVE  /\ finals' = finals
         /\ flushing' \in BOOLEAN /\ queuedEnd' \in BOOLEAN
         /\ stdin' \in Seq(Requests) /\ OneAwaited' /\ NotYetIn(finals, stdin', spoken)
         /\ pending' \subseteq 1 .. spoken /\ NotIn(finals, pending') /\ pending' \subseteq Chunks
<1> DEFINE q == Tail(stdin)
<1>1. /\ q \in Seq(Requests) /\ Len(stdin) \in Nat /\ Len(stdin) >= 1 /\ Len(q) = Len(stdin) - 1
      /\ \A i \in 1 .. Len(stdin) - 1 : q[i] = stdin[i + 1]
      /\ 1 = Len(stdin) => q = <<>>
  BY Unqueued DEF BridgeInv, TypeOK
<1>2. \A i \in 1 .. Len(q) : i + 1 \in 1 .. Len(stdin) /\ q[i] = stdin[i + 1]
  BY <1>1
<1>3. NotYetIn(finals, q, spoken)
  BY <1>2 DEF BridgeInv, HeardIsGone, NotYetIn
<1>4. /\ finals' = finals
      /\ stdin[1].awaited => Finally(q)
      /\ ~stdin[1].awaited => stdin' = q /\ UNCHANGED <<pending, flushing, queuedEnd>>
  BY DEF Unanswered
<1> HIDE DEF q
<1>5. CASE stdin[1].awaited
  <2>1. Unawaited(q)
    <3>1. 1 \in 1 .. Len(stdin)
      BY <1>1
    <3>2. 1 = Len(stdin)
      BY <1>5, <3>1 DEF BridgeInv, OneAwaited
    <3>3. q = <<>>
      BY <1>1, <3>2
    <3>4. QED
      BY <3>3 DEF Unawaited
  <2>2. QED
    BY <1>1, <1>3, <1>4, <1>5, <2>1, FinallyEffect, FinallyGone DEF BridgeInv, HeardIsGone
<1>6. CASE ~stdin[1].awaited
  <2>1. OneAwaited'
    <3>1. \A i \in 1 .. Len(q) : q[i].awaited => i = Len(q) /\ flushing
      BY <1>1, <1>2 DEF BridgeInv, OneAwaited
    <3>2. flushing => q # <<>> /\ q[Len(q)].awaited
      <4>1. SUFFICES ASSUME flushing PROVE q # <<>> /\ q[Len(q)].awaited
        OBVIOUS
      <4>2. stdin[Len(stdin)].awaited
        BY <4>1 DEF BridgeInv, OneAwaited
      <4>3. Len(stdin) # 1
        BY <1>6, <4>2
      <4>4. Len(q) >= 1 /\ Len(q) \in 1 .. Len(stdin) - 1
        BY <1>1, <4>3
      <4>5. q[Len(q)] = stdin[Len(stdin)]
        BY <1>1, <4>4
      <4>6. QED
        BY <1>1, <4>2, <4>4, <4>5
    <3>3. QED
      BY <1>4, <1>6, <3>1, <3>2 DEF BridgeInv, OneAwaited
  <2>2. QED
    BY <1>1, <1>3, <1>4, <1>6, <2>1 DEF BridgeInv, HeardIsGone, TypeOK
<1>7. QED
  BY <1>5, <1>6

\* A final text is followed by the reset.
LEMMA AnsweredEffect ==
  ASSUME BridgeInv, stdin # <<>>, stdin[1].awaited, NEW words \in SUBSET Chunks,
         Answered(stdin[1], words)
  PROVE  /\ finals' = IF Of(words) = {} THEN finals ELSE Append(finals, words)
         /\ stdin' = <<[method |-> "whisper.reset", awaited |-> TRUE]>>
         /\ stdin' \in Seq(Requests) /\ pending' = {} /\ queuedEnd' = FALSE
         /\ flushing /\ flushing' = flushing
<1> DEFINE r == [method |-> "whisper.reset", awaited |-> TRUE]
<1>1. /\ Tail(stdin) \in Seq(Requests) /\ Len(stdin) \in Nat /\ Len(stdin) >= 1
      /\ 1 = Len(stdin) => Tail(stdin) = <<>>
  BY Unqueued DEF BridgeInv, TypeOK
<1>2. 1 = Len(stdin) /\ flushing
  <2>1. 1 \in 1 .. Len(stdin)
    BY <1>1
  <2>2. QED
    BY <2>1 DEF BridgeInv, OneAwaited
<1>3. Tail(stdin) = <<>>
  BY <1>1, <1>2
<1>4. /\ finals' = IF Of(words) = {} THEN finals ELSE Append(finals, words)
      /\ pending' = {} /\ queuedEnd' = FALSE /\ stdin' = Append(Tail(stdin), r)
      /\ flushing' = flushing
  BY DEF Answered, Reset
<1>5. Append(<<>>, r) = <<r>>
  OBVIOUS
<1>6. r \in Requests
  BY DEF Requests
<1>7. <<r>> \in Seq(Requests)
  BY <1>6
<1>8. QED
  BY <1>2, <1>3, <1>4, <1>5, <1>7

LEMMA FinalsAdd ==
  ASSUME NEW S, NEW s \in Seq(S), NEW e \in S
  PROVE  /\ Append(s, e) \in Seq(S) /\ DOMAIN Append(s, e) = DOMAIN s \cup {Len(s) + 1}
         /\ Len(s) + 1 \notin DOMAIN s /\ Append(s, e)[Len(s) + 1] = e
         /\ \A i \in DOMAIN s : Append(s, e)[i] = s[i]
OBVIOUS

LEMMA WorkerAnswersKeeps == ASSUME BridgeInv, WorkerAnswers PROVE BridgeInv'
<1> DEFINE h == stdin[1]
<1>1. /\ localWhisperActive' = localWhisperActive /\ utterance' = utterance /\ spoken' = spoken
      /\ talking' = talking /\ talker' = talker /\ unheard' = unheard /\ ended' = ended
      /\ overlapped' = overlapped /\ stdin # <<>>
  BY DEF WorkerAnswers, speaker
<1>2. Head(stdin) = h /\ h \in Requests /\ 1 \in 1 .. Len(stdin)
  BY <1>1, Unqueued DEF BridgeInv, TypeOK
<1>3. AudioRequest(h) \/ ResetRequest(h)
  BY <1>2 DEF WorkerAnswers
<1>4. localWhisperActive
  BY <1>1 DEF BridgeInv, BeforeWarmUp
<1>5. /\ pending \subseteq 1 .. spoken /\ NotIn(finals, pending) /\ NotYetIn(finals, stdin, spoken)
      /\ audio \subseteq 1 .. spoken /\ 1 .. spoken \subseteq Chunks
  BY BoundsAssumption DEF BridgeInv, HeardIsGone, TypeOK, Chunks
<1>6. ASSUME /\ flushing' \in BOOLEAN /\ queuedEnd' \in BOOLEAN /\ failed' \in Nat /\ cut' \in BOOLEAN
             /\ stdin' \in Seq(Requests) /\ OneAwaited' /\ finals' \in Seq(SUBSET Chunks)
             /\ pending' \subseteq 1 .. spoken /\ audio' \subseteq 1 .. spoken /\ HeardIsGone'
      PROVE  BridgeInv'
  <2>1. TypeOK'
    <3>1. pending' \subseteq Chunks /\ audio' \subseteq Chunks
      BY <1>5, <1>6
    <3>2. QED
      BY <1>1, <1>6, <3>1 DEF BridgeInv, TypeOK
  <2>2. BeforeWarmUp'
    BY <1>1, <1>4 DEF BeforeWarmUp
  <2>3. QED
    BY <1>1, <1>6, <2>1, <2>2 DEF BridgeInv
<1>7. ASSUME Unanswered(h), failed' \in Nat, cut' \in BOOLEAN, audio' \subseteq 1 .. spoken,
             NotIn(finals, audio')
      PROVE  BridgeInv'
  <2>1. /\ finals' = finals
        /\ flushing' \in BOOLEAN /\ queuedEnd' \in BOOLEAN
        /\ stdin' \in Seq(Requests) /\ OneAwaited' /\ NotYetIn(finals, stdin', spoken)
        /\ pending' \subseteq 1 .. spoken /\ NotIn(finals, pending') /\ pending' \subseteq Chunks
    BY <1>1, <1>7, UnansweredEffect
  <2>2. HeardIsGone'
    BY <1>1, <1>7, <2>1 DEF BridgeInv, HeardIsGone
  <2>3. QED
    BY <1>6, <1>7, <2>1, <2>2 DEF BridgeInv, TypeOK
<1>8. CASE AudioRequest(h)
  <2>1. h.method = "whisper.audio" /\ audio' = audio \cup h.pcm
    BY <1>8 DEF AudioRequest
  <2>2. audio' \subseteq 1 .. spoken
    BY <1>2, <1>5, <2>1 DEF NotYetIn
  <2>3. NotIn(finals, audio')
    <3>1. ~Resetting
      BY <1>1, <2>1 DEF Resetting
    <3>2. NotIn(finals, audio) /\ NotIn(finals, h.pcm)
      BY <1>2, <2>1, <3>1 DEF BridgeInv, HeardIsGone, NotYetIn
    <3>3. QED
      BY <2>1, <3>2 DEF NotIn
  <2>4. CASE Unanswered(h) /\ UNCHANGED <<failed, cut>>
    BY <1>7, <2>2, <2>3, <2>4 DEF BridgeInv, TypeOK
  <2>5. CASE Unanswered(h) /\ failed' = failed + 1 /\ UNCHANGED cut
    <3>1. failed' \in Nat /\ cut' \in BOOLEAN
      BY <2>5 DEF BridgeInv, TypeOK
    <3>2. QED
      BY <1>7, <2>2, <2>3, <2>5, <3>1
  <2>6. CASE /\ Answered(h, Latest(Window, audio')) /\ UNCHANGED failed
             /\ cut' = (cut \/ Cardinality(audio') > Window)
    <3> DEFINE words == Latest(Window, audio')
    <3>1. words \subseteq audio'
      BY DEF Latest
    <3>2. words \in SUBSET Chunks
      BY <1>5, <2>2, <3>1
    <3>3. failed' \in Nat /\ cut' \in BOOLEAN
      BY <2>6 DEF BridgeInv, TypeOK
    <3> HIDE DEF words
    <3>4. CASE ~h.awaited
      <4>1. Unanswered(h)
        BY <2>6, <3>4 DEF Answered
      <4>2. QED
        BY <1>7, <2>2, <2>3, <3>3, <4>1
    <3>5. CASE h.awaited
      <4>0. Answered(h, words)
        BY <2>6 DEF words
      <4>1. /\ finals' = IF Of(words) = {} THEN finals ELSE Append(finals, words)
            /\ stdin' = <<[method |-> "whisper.reset", awaited |-> TRUE]>>
            /\ stdin' \in Seq(Requests) /\ pending' = {} /\ queuedEnd' = FALSE
            /\ flushing' = TRUE
        BY <1>1, <3>2, <3>5, <4>0, AnsweredEffect DEF BridgeInv, TypeOK
      <4>2. OneAwaited'
        BY <4>1 DEF OneAwaited
      <4>3. stdin' # <<>> /\ stdin'[1].method = "whisper.reset" /\ 1 .. Len(stdin') = {1}
        BY <4>1
      <4>4. NotIn(finals, words)
        BY <2>3, <3>1 DEF NotIn
      <4>5. finals \in Seq(SUBSET Chunks)
        BY DEF BridgeInv, TypeOK
      <4>6. /\ finals' \in Seq(SUBSET Chunks)
            /\ \A k \in DOMAIN finals' : finals'[k] \subseteq 1 .. spoken
            /\ \A k, l \in DOMAIN finals' : k # l => finals'[k] \cap finals'[l] = {}
        <5>1. CASE Of(words) = {}
          BY <4>1, <4>5, <5>1 DEF BridgeInv, HeardIsGone
        <5>2. CASE Of(words) # {}
          <6>1. finals' = Append(finals, words)
            BY <4>1, <5>2
          <6>2. /\ finals' \in Seq(SUBSET Chunks) /\ DOMAIN finals' = DOMAIN finals \cup {Len(finals) + 1}
                /\ finals'[Len(finals) + 1] = words /\ Len(finals) + 1 \notin DOMAIN finals
                /\ \A i \in DOMAIN finals : finals'[i] = finals[i]
            BY <3>2, <4>5, <6>1, FinalsAdd
          <6>3. words \subseteq 1 .. spoken
            BY <2>2, <3>1
          <6>4. \A k \in DOMAIN finals' : finals'[k] \subseteq 1 .. spoken
            BY <6>2, <6>3 DEF BridgeInv, HeardIsGone
          <6>5. \A k, l \in DOMAIN finals' : k # l => finals'[k] \cap finals'[l] = {}
            BY <4>4, <6>2 DEF BridgeInv, HeardIsGone, NotIn
          <6>6. QED
            BY <6>2, <6>4, <6>5
        <5>3. QED
          BY <5>1, <5>2
      <4>7. HeardIsGone'
        <5>1. Resetting' /\ NotYetIn(finals', stdin', spoken)
          BY <4>3 DEF Resetting, NotYetIn
        <5>2. NotIn(finals', pending') /\ pending' \subseteq 1 .. spoken
          BY <4>1 DEF NotIn
        <5>3. QED
          BY <1>1, <2>2, <4>6, <5>1, <5>2 DEF HeardIsGone
      <4>8. QED
        BY <1>6, <2>2, <3>3, <4>1, <4>2, <4>6, <4>7
    <3>6. QED
      BY <3>4, <3>5
  <2>7. QED
    BY <1>8, <2>4, <2>5, <2>6 DEF AudioRequest
<1>9. CASE ResetRequest(h)
  <2>1. audio' = {} /\ Unanswered(h) /\ UNCHANGED <<failed, cut>>
    BY <1>9 DEF ResetRequest
  <2>2. audio' \subseteq 1 .. spoken /\ NotIn(finals, audio')
    BY <2>1 DEF NotIn
  <2>3. QED
    BY <1>7, <2>1, <2>2 DEF BridgeInv, TypeOK
<1>10. QED
  BY <1>3, <1>8, <1>9

LEMMA LossesKeep == ASSUME BridgeInv, RequestTimeout \/ WorkerDies PROVE BridgeInv'
<1>1. /\ localWhisperActive' = localWhisperActive /\ utterance' = utterance /\ spoken' = spoken
      /\ talking' = talking /\ talker' = talker /\ unheard' = unheard /\ ended' = ended
      /\ overlapped' = overlapped /\ finals' = finals /\ cut' = cut
  BY DEF RequestTimeout, WorkerDies, speaker
<1>2. failed' \in Nat
  BY DEF RequestTimeout, WorkerDies, BridgeInv, TypeOK
<1>3. /\ stdin \in Seq(Requests) /\ TypeOK /\ pending \subseteq 1 .. spoken
      /\ NotIn(finals, pending) /\ NotYetIn(finals, stdin, spoken)
  BY DEF BridgeInv, HeardIsGone, TypeOK
<1>4. ASSUME NEW q \in Seq(Requests), Unawaited(q), NotYetIn(finals, q, spoken), Finally(q),
             audio' \in {audio, {}}, BeforeWarmUp',
             audio' = {} \/ (Resetting => q # <<>> /\ q[1].method = "whisper.reset")
      PROVE  BridgeInv'
  <2>1. /\ stdin' \in Seq(Requests) /\ OneAwaited' /\ flushing' \in BOOLEAN /\ queuedEnd' = FALSE
    BY <1>3, <1>4, FinallyEffect
  <2>2. /\ NotYetIn(finals, stdin', spoken)
        /\ pending' \subseteq 1 .. spoken /\ NotIn(finals, pending') /\ pending' \subseteq Chunks
        /\ q # <<>> => stdin' # <<>> /\ stdin'[1] = q[1]
    BY <1>3, <1>4, FinallyGone
  <2>3. HeardIsGone'
    <3>1. ~Resetting' => NotIn(finals, audio')
      BY <1>4, <2>2 DEF Resetting, BridgeInv, HeardIsGone, NotIn
    <3>2. audio' \subseteq 1 .. spoken
      BY <1>4 DEF BridgeInv, HeardIsGone
    <3>3. QED
      BY <1>1, <2>2, <3>1, <3>2 DEF BridgeInv, HeardIsGone
  <2>4. TypeOK'
    BY <1>1, <1>2, <1>4, <2>1, <2>2 DEF BridgeInv, TypeOK
  <2>5. QED
    BY <1>1, <1>4, <2>1, <2>3, <2>4 DEF BridgeInv
<1>5. CASE RequestTimeout
  <2> DEFINE q == [i \in DOMAIN stdin |-> [stdin[i] EXCEPT !.awaited = FALSE]]
  <2>1. Finally(q) /\ audio' = audio /\ Awaited # {}
    BY <1>5 DEF RequestTimeout
  <2>2. \A i \in DOMAIN stdin : /\ q[i] \in Requests /\ ~q[i].awaited /\ q[i].method = stdin[i].method
                                /\ stdin[i].method = "whisper.audio" => q[i].pcm = stdin[i].pcm
    <3>1. SUFFICES ASSUME NEW i \in DOMAIN stdin
                   PROVE  /\ q[i] \in Requests /\ ~q[i].awaited /\ q[i].method = stdin[i].method
                          /\ stdin[i].method = "whisper.audio" => q[i].pcm = stdin[i].pcm
      OBVIOUS
    <3>2. stdin[i] \in Requests /\ q[i] = [stdin[i] EXCEPT !.awaited = FALSE]
      BY <1>3
    <3> HIDE DEF q
    <3>3. QED
      BY <3>2, RequestKinds
  <2>3. q \in Seq(Requests) /\ Len(q) = Len(stdin) /\ DOMAIN stdin = 1 .. Len(stdin)
    BY <1>3, <2>2
  <2> HIDE DEF q
  <2>4. Unawaited(q) /\ NotYetIn(finals, q, spoken)
    BY <1>3, <2>2, <2>3 DEF Unawaited, NotYetIn
  <2>5. Resetting => q # <<>> /\ q[1].method = "whisper.reset"
    <3>1. SUFFICES ASSUME Resetting PROVE q # <<>> /\ q[1].method = "whisper.reset"
      OBVIOUS
    <3>2. 1 \in DOMAIN stdin
      BY <1>3, <3>1 DEF Resetting
    <3>3. q # <<>>
      BY <2>3, <3>2
    <3>4. QED
      BY <2>2, <3>1, <3>2, <3>3 DEF Resetting
  <2>6. BeforeWarmUp'
    <3>1. stdin # <<>>
      BY <2>1 DEF Awaited
    <3>2. QED
      BY <1>1, <3>1 DEF BridgeInv, BeforeWarmUp
  <2>7. QED
    BY <1>4, <2>1, <2>3, <2>4, <2>5, <2>6
<1>6. CASE WorkerDies
  <2>1. audio' = {}
    BY <1>6 DEF WorkerDies
  <2>2. <<>> \in Seq(Requests) /\ Unawaited(<<>>) /\ NotYetIn(finals, <<>>, spoken)
    BY DEF Unawaited, NotYetIn
  <2>3. CASE Awaited # {}
    <3>1. Finally(<<>>)
      BY <1>6, <2>3 DEF WorkerDies
    <3>2. stdin # <<>>
      BY <2>3 DEF Awaited
    <3>3. BeforeWarmUp'
      BY <1>1, <3>2 DEF BridgeInv, BeforeWarmUp
    <3>4. QED
      BY <1>4, <2>1, <2>2, <3>1, <3>3
  <2>4. CASE Awaited = {}
    <3>1. stdin' = <<>> /\ UNCHANGED <<pending, flushing, queuedEnd>>
      BY <1>6, <2>4 DEF WorkerDies
    <3>2. ~flushing
      <4>1. SUFFICES ASSUME flushing PROVE FALSE
        OBVIOUS
      <4>2. stdin # <<>> /\ stdin[Len(stdin)].awaited
        BY <4>1 DEF BridgeInv, OneAwaited
      <4>3. Len(stdin) \in 1 .. Len(stdin)
        BY <1>3, <4>2
      <4>4. QED
        BY <2>4, <4>2, <4>3 DEF Awaited
    <3>3. OneAwaited'
      BY <3>1, <3>2 DEF BridgeInv, OneAwaited
    <3>4. HeardIsGone'
      BY <1>1, <2>1, <2>2, <3>1 DEF BridgeInv, HeardIsGone, NotIn
    <3>5. BeforeWarmUp'
      BY <1>1, <2>1, <3>1 DEF BridgeInv, BeforeWarmUp
    <3>6. TypeOK'
      BY <1>1, <1>2, <2>1, <2>2, <3>1 DEF BridgeInv, TypeOK
    <3>7. QED
      BY <1>1, <3>3, <3>4, <3>5, <3>6 DEF BridgeInv
  <2>5. QED
    BY <2>3, <2>4
<1>7. QED
  BY <1>5, <1>6

-----------------------------------------------------------------------------

LEMMA InHandIsSpoken == ASSUME BridgeInv PROVE InHand \subseteq 1 .. spoken
<1>1. CASE stdin = <<>> \/ Resetting
  BY <1>1 DEF InHand, InWorker, BridgeInv, HeardIsGone
<1>2. CASE stdin # <<>> /\ ~Resetting
  <2>1. stdin[1] \in Requests /\ 1 \in 1 .. Len(stdin)
    BY <1>2, Unqueued DEF BridgeInv, TypeOK
  <2>2. stdin[1].method = "whisper.audio"
    BY <1>2, <2>1, RequestKinds DEF Resetting
  <2>3. stdin[1].pcm \subseteq 1 .. spoken
    BY <2>1, <2>2 DEF BridgeInv, HeardIsGone, NotYetIn
  <2>4. QED
    BY <1>2, <2>3 DEF InHand, InWorker, BridgeInv, HeardIsGone
<1>3. QED
  BY <1>1, <1>2

\* What the model takes for an end under way is one the invariant speaks of.
LEMMA EndsAreUnderWay == ASSUME BridgeInv, WholeUtterances, ~EndUnderWay PROVE ~Ends
<1>1. SUFFICES ASSUME Resetting \/ Ending PROVE EndUnderWay
  BY DEF Ends, EndUnderWay
<1>2. stdin # <<>>
  BY <1>1 DEF Resetting, Ending
<1>3. 1 = Len(stdin) /\ 1 \in 1 .. Len(stdin)
  <2>1. Len(stdin) \in Nat /\ Len(stdin) >= 1 /\ Len(stdin) <= 1
    BY <1>2, Unqueued DEF BridgeInv, TypeOK, WholeUtterances
  <2>2. ASSUME NEW l \in Nat, l >= 1, l <= 1 PROVE 1 = l /\ 1 \in 1 .. l
    BY <2>2
  <2>3. QED
    BY <2>1, <2>2, Zenon
<1>4. stdin[1].awaited
  BY <1>2, <1>3 DEF WholeUtterances, BridgeInv, OneAwaited
<1>5. 1 \in Awaited
  BY <1>3, <1>4 DEF Awaited
<1>6. QED
  BY <1>1, <1>5 DEF EndUnderWay, Resetting, Ending

LEMMA WarmedUpWhole == ASSUME WholeUtterances, WarmedUp PROVE WholeUtterances'
<1>1. UNCHANGED <<pending, flushing, queuedEnd, worker, speaker, history>>
  BY DEF WarmedUp
<1>2. /\ Resetting' = Resetting /\ Ending' = Ending /\ Ends' = Ends /\ InHand' = InHand
      /\ queuedEnd' = queuedEnd /\ stdin' = stdin /\ flushing' = flushing /\ pending' = pending
  BY <1>1 DEF worker, Resetting, Ending, Ends, InHand, InWorker
<1>3. /\ talking' = talking /\ talker' = talker /\ utterance' = utterance /\ spoken' = spoken
      /\ unheard' = unheard /\ finals' = finals /\ cut' = cut
  BY <1>1 DEF speaker, history
<1>4. /\ \A u : Passed(u)' = Passed(u) /\ Over(u)' = Over(u)
      /\ \A S : Of(S)' = Of(S) /\ Silent(S)' = Silent(S)
  BY <1>3 DEF Passed, Of, Over, Silent
<1>5. FinalsWhole'
  BY <1>3, <1>4 DEF WholeUtterances, FinalsWhole
<1>6. /\ Ends' /\ talking' => Passed(utterance)' = {}
      /\ talking' => (~Ends' => Passed(utterance)' \subseteq InHand')
      /\ (Silent(InHand) => Silent(InHand)') /\ (Silent(pending) => Silent(pending)')
  BY <1>2, <1>3, <1>4 DEF WholeUtterances, Silent
<1>7. QED
  BY <1>2, <1>3, <1>4, <1>5, <1>6 DEF WholeUtterances, FinalsWhole

LEMMA StartSpeakingWhole ==
  ASSUME BridgeInv, WholeUtterances, StartSpeaking PROVE WholeUtterances'
<1>1. /\ ~talking /\ talking' = TRUE /\ utterance' = utterance + 1
      /\ UNCHANGED <<bridge, worker, spoken, talker, unheard, history>>
  BY DEF StartSpeaking
<1>2. /\ Resetting' = Resetting /\ Ending' = Ending /\ Ends' = Ends /\ InHand' = InHand
      /\ Silent(InHand)' = Silent(InHand) /\ Silent(pending)' = Silent(pending)
      /\ queuedEnd' = queuedEnd /\ stdin' = stdin /\ flushing' = flushing
  BY <1>1 DEF bridge, worker, Resetting, Ending, Ends, InHand, InWorker, Silent
<1>3. /\ \A u : Passed(u)' = Passed(u) /\ \A S : Of(S)' = Of(S)
      /\ finals' = finals /\ cut' = cut /\ talker' = talker
  BY <1>1 DEF Passed, Of, history
<1>4. utterance \in Nat /\ \A u \in Utterances : u \in Nat
  BY BoundsAssumption DEF BridgeInv, TypeOK, Utterances, Nobody
<1>5. \A u \in Utterances : Over(u) => Over(u)'
  BY <1>1, <1>4 DEF Over
<1>6. Passed(utterance') = {}
  <2>1. \A i \in 1 .. spoken : talker[i] <= utterance /\ talker[i] \in Nat
    BY BoundsAssumption, SMTT(30) DEF BridgeInv, TypeOK, Chunks, Utterances, Nobody
  <2>2. \A i \in 1 .. spoken : talker[i] # utterance + 1
    BY <1>4, <2>1
  <2>3. QED
    BY <1>1, <2>2 DEF Passed
<1>7. ~Ends' => /\ \A i \in InHand' : talker'[i] \in {Nobody, utterance'}
                /\ talking' => Passed(utterance') \subseteq InHand'
                /\ ~talking' => Silent(InHand)'
  BY <1>1, <1>2, <1>3, <1>6 DEF WholeUtterances, Silent
<1>8. FinalsWhole'
  BY <1>3, <1>5 DEF WholeUtterances, FinalsWhole
<1>9. Passed(utterance)' = {}
  BY <1>1, <1>3, <1>6 DEF Passed
<1>10. QED
  BY <1>1, <1>2, <1>3, <1>5, <1>6, <1>7, <1>8, <1>9 DEF WholeUtterances, FinalsWhole, Passed

\* A chunk joins what is in hand, and speech goes on or nobody speaks.
LEMMA PushAudioWhole ==
  ASSUME BridgeInv, WholeUtterances, PushAudio, ~overlapped' PROVE WholeUtterances'
<1> DEFINE n == spoken + 1
<1>0. /\ spoken \in Nat /\ spoken' = n /\ n \in Chunks
      /\ 1 .. spoken' = (1 .. spoken) \cup {n} /\ n \notin 1 .. spoken
      /\ talker'[n] = IF talking THEN utterance ELSE Nobody
      /\ \A i \in 1 .. spoken : talker'[i] = talker[i]
  BY NewChunk
<1> HIDE DEF n
<1>1. /\ audio' = audio /\ utterance' = utterance /\ talking' = talking /\ finals' = finals
      /\ cut' = cut
  BY DEF PushAudio
<1>2. /\ InHand \subseteq 1 .. spoken /\ pending \subseteq 1 .. spoken
      /\ \A k \in DOMAIN finals : finals[k] \subseteq 1 .. spoken
  BY InHandIsSpoken DEF BridgeInv, HeardIsGone
<1>3. Nobody \notin Utterances /\ (\A u \in Utterances : u \in Nat) /\ utterance \in Nat
  BY BoundsAssumption DEF BridgeInv, TypeOK, Utterances, Nobody
<1>4. \A u \in Utterances : Over(u)' = Over(u) /\ (Over(u) => talker'[n] # u)
  BY <1>0, <1>1, <1>3 DEF Over
<1>5. /\ \A S \in SUBSET (1 .. spoken) : Silent(S)' = Silent(S) /\ Of(S)' = Of(S)
  BY <1>0 DEF Silent, Of
<1>6. FinalsWhole'
  <2>0. unheard \subseteq unheard'
    BY DEF PushAudio
  <2>1. \A u \in Utterances : Over(u) => Passed(u)' \subseteq Passed(u)
    BY <1>0, <1>4, <2>0 DEF Passed
  <2>2. SUFFICES ASSUME NEW k \in DOMAIN finals
                 PROVE  \E u \in Utterances : /\ Over(u)' /\ Of(finals[k])' = {u}
                                              /\ cut \/ Passed(u)' \subseteq finals[k]
    BY <1>1 DEF FinalsWhole, Of
  <2>3. PICK u \in Utterances : /\ Over(u) /\ Of(finals[k]) = {u}
                                /\ cut \/ Passed(u) \subseteq finals[k]
    BY DEF WholeUtterances, FinalsWhole
  <2>4. Of(finals[k])' = {u}
    BY <1>0, <1>1, <1>2, <2>3 DEF Of
  <2>5. QED
    BY <1>4, <2>1, <2>3, <2>4
<1>7. CASE ~localWhisperActive
  <2>1. /\ unheard' = unheard \cup {n} /\ UNCHANGED <<pending, flushing, queuedEnd, stdin>>
    BY <1>0, <1>7 DEF PushAudio
  <2>2. pending = {} /\ audio = {} /\ stdin = <<>> /\ ~queuedEnd /\ 1 .. spoken \subseteq unheard
    BY <1>7 DEF BridgeInv, BeforeWarmUp
  <2>3. InHand' = {} /\ ~Ends' /\ ~Resetting' /\ ~Ending'
    BY <1>1, <2>1, <2>2 DEF InHand, InWorker, Ends, Resetting, Ending
  <2>4. Passed(utterance)' = {}
    BY <1>0, <2>1, <2>2 DEF Passed
  <2>5. Len(stdin') <= 1 /\ (stdin' # <<>> => flushing')
    BY <2>1 DEF WholeUtterances
  <2>6. QED
    BY <1>6, <2>1, <2>2, <2>3, <2>4, <2>5 DEF WholeUtterances, FinalsWhole, Silent
<1>8. CASE localWhisperActive
  <2>1. unheard' = unheard /\ ~(talking /\ EndUnderWay)
    BY <1>8 DEF PushAudio
  <2>2. talking => ~Ends
    BY <2>1, EndsAreUnderWay
  <2>3. /\ InHand' = InHand \cup {n} /\ Ends' = Ends /\ Resetting' = Resetting /\ Ending' = Ending
        /\ queuedEnd' = queuedEnd /\ pending' \subseteq pending \cup {n}
        /\ Len(stdin') <= 1 /\ (stdin' # <<>> => flushing')
    <3>1. CASE ~flushing /\ Flush(stdin, pending \cup {n}, FALSE)
      <4>1. stdin = <<>> /\ ~queuedEnd /\ queuedEnd \in BOOLEAN
        BY <3>1 DEF WholeUtterances, BridgeInv, OneAwaited, TypeOK
      <4>2. stdin' = Append(<<>>, Sent(pending \cup {n}, FALSE))
            /\ flushing' = TRUE /\ queuedEnd' = FALSE /\ pending' = {}
        BY <3>1, <4>1 DEF Flush, Sent
      <4>3. Append(<<>>, Sent(pending \cup {n}, FALSE)) = <<Sent(pending \cup {n}, FALSE)>>
        OBVIOUS
      <4>4. stdin' # <<>> /\ Len(stdin') = 1 /\ stdin'[1] = Sent(pending \cup {n}, FALSE)
        BY <4>2, <4>3
      <4>5. ~Resetting /\ ~Ending /\ ~Resetting' /\ ~Ending' /\ ~Ends /\ ~Ends'
        BY <4>1, <4>2, <4>4 DEF Resetting, Ending, Ends, Sent
      <4>6. InHand' = audio \cup (pending \cup {n}) /\ InHand = audio \cup pending
        BY <1>1, <4>1, <4>2, <4>4, <4>5 DEF InHand, InWorker, Sent
      <4>7. Ends' = Ends /\ Resetting' = Resetting /\ Ending' = Ending
        BY <4>5 DEF Ends, Resetting, Ending
      <4>8. queuedEnd' = queuedEnd
        BY <4>1, <4>2
      <4>9. QED
        BY <4>2, <4>4, <4>6, <4>7, <4>8
    <3>2. CASE pending' = pending \cup {n} /\ UNCHANGED <<flushing, queuedEnd, stdin>>
      BY <1>1, <3>2 DEF WholeUtterances, InHand, InWorker, Ends, Resetting, Ending
    <3>3. QED
      BY <1>0, <1>8, <3>1, <3>2 DEF PushAudio
  <2>4. CASE Ends
    <3>1. ~talking /\ talker'[n] = Nobody
      BY <1>0, <2>2, <2>4
    <3>2. Resetting' \/ Ending' => Silent(pending)'
      BY <1>0, <1>2, <2>3, <3>1 DEF WholeUtterances, Silent
    <3>3. \A u \in Utterances : Passed(u)' = Passed(u)
      BY <1>0, <1>3, <2>1, <3>1 DEF Passed
    <3>4. queuedEnd' \/ Ending' =>
            \E u \in Utterances : /\ Over(u)' /\ Passed(u)' \subseteq InHand'
                                  /\ \A i \in InHand' : talker'[i] \in {Nobody, u}
      <4>1. SUFFICES ASSUME queuedEnd \/ Ending
                     PROVE  \E u \in Utterances : /\ Over(u)' /\ Passed(u)' \subseteq InHand'
                                                  /\ \A i \in InHand' : talker'[i] \in {Nobody, u}
        BY <2>3
      <4>2. PICK u \in Utterances : /\ Over(u) /\ Passed(u) \subseteq InHand
                                    /\ \A i \in InHand : talker[i] \in {Nobody, u}
        BY <4>1 DEF WholeUtterances
      <4>3. \A i \in InHand' : talker'[i] \in {Nobody, u}
        BY <1>0, <1>2, <2>3, <3>1, <4>2
      <4>4. QED
        BY <1>4, <2>3, <3>3, <4>2, <4>3
    <3>5. QED
      BY <1>1, <1>6, <2>3, <2>4, <3>1, <3>2, <3>4 DEF WholeUtterances, FinalsWhole
  <2>5. CASE ~Ends
    <3>1. \A i \in InHand' : talker'[i] \in {Nobody, utterance'}
      BY <1>0, <1>1, <1>2, <2>3, <2>5 DEF WholeUtterances
    <3>2. talking' => Passed(utterance)' \subseteq InHand'
      BY <1>0, <1>1, <2>1, <2>3, <2>5 DEF WholeUtterances, Passed
    <3>3. ~talking' => Silent(InHand)'
      BY <1>0, <1>1, <1>2, <2>3, <2>5 DEF WholeUtterances, Silent
    <3>4. ~Resetting' /\ ~Ending' /\ ~queuedEnd' /\ ~Ends'
      BY <2>3, <2>5 DEF Ends
    <3>5. QED
      BY <1>6, <2>3, <3>1, <3>2, <3>3, <3>4 DEF WholeUtterances, FinalsWhole
  <2>6. QED
    BY <2>4, <2>5
<1>9. QED
  BY <1>7, <1>8

LEMMA StopSpeakingWhole ==
  ASSUME BridgeInv, WholeUtterances, StopSpeaking, ~overlapped' PROVE WholeUtterances'
<1>1. /\ talking /\ talking' = FALSE /\ utterance' = utterance /\ utterance \in Utterances
      /\ audio' = audio /\ finals' = finals /\ cut' = cut
      /\ spoken' = spoken /\ talker' = talker /\ unheard' = unheard
  BY DEF StopSpeaking, BridgeInv
<1>2. /\ \A u : Passed(u)' = Passed(u) /\ \A S : Of(S)' = Of(S)
      /\ \A u \in Utterances : Over(u) => Over(u)'
  BY <1>1 DEF Passed, Of, Over
<1>3. FinalsWhole'
  BY <1>1, <1>2 DEF WholeUtterances, FinalsWhole
<1>4. Over(utterance)'
  BY <1>1 DEF Over
<1>5. CASE ~localWhisperActive
  <2>1. UNCHANGED <<pending, flushing, queuedEnd, stdin>>
    BY <1>5 DEF StopSpeaking
  <2>2. pending = {} /\ audio = {} /\ stdin = <<>> /\ ~queuedEnd
    BY <1>5 DEF BridgeInv, BeforeWarmUp
  <2>3. InHand' = {} /\ ~Ends' /\ ~Resetting' /\ ~Ending'
    BY <1>1, <2>1, <2>2 DEF InHand, InWorker, Ends, Resetting, Ending
  <2>4. Len(stdin') <= 1 /\ (stdin' # <<>> => flushing')
    BY <2>1 DEF WholeUtterances
  <2>5. QED
    BY <1>1, <1>3, <2>1, <2>2, <2>3, <2>4 DEF WholeUtterances, FinalsWhole, Silent
<1>6. CASE localWhisperActive
  <2>1. EndSpeech /\ ~EndUnderWay
    BY <1>6 DEF StopSpeaking
  <2>2. ~Ends /\ ~Resetting /\ ~Ending /\ ~queuedEnd
    BY <2>1, EndsAreUnderWay DEF Ends
  <2>3. /\ Passed(utterance) \subseteq InHand
        /\ \A i \in InHand : talker[i] \in {Nobody, utterance}
    BY <1>1, <2>2 DEF WholeUtterances
  <2>4. /\ InHand' = InHand /\ ~Resetting' /\ (queuedEnd' \/ Ending') /\ ~(queuedEnd' /\ Ending')
        /\ Ending' => pending' = {}
        /\ Len(stdin') <= 1 /\ (stdin' # <<>> => flushing')
    <3>1. CASE flushing
      <4>1. queuedEnd' = TRUE /\ UNCHANGED <<pending, flushing, stdin>>
        BY <2>1, <3>1 DEF EndSpeech
      <4>2. QED
        BY <1>1, <2>2, <4>1 DEF WholeUtterances, InHand, InWorker, Resetting, Ending
    <3>2. CASE ~flushing
      <4>1. stdin = <<>> /\ Flush(stdin, pending, TRUE)
        BY <2>1, <3>2 DEF WholeUtterances, EndSpeech
      <4>2. stdin' = Append(<<>>, Sent(pending, TRUE))
            /\ flushing' = TRUE /\ queuedEnd' = FALSE /\ pending' = {}
        BY <4>1 DEF Flush, Sent
      <4>3. Append(<<>>, Sent(pending, TRUE)) = <<Sent(pending, TRUE)>>
        OBVIOUS
      <4>4. stdin' # <<>> /\ Len(stdin') = 1 /\ stdin'[1] = Sent(pending, TRUE)
        BY <4>2, <4>3
      <4>5. ~Resetting' /\ Ending' /\ ~queuedEnd'
        BY <4>2, <4>4 DEF Resetting, Ending, Sent
      <4>6. InHand' = audio \cup pending /\ InHand = audio \cup pending
        BY <1>1, <4>1, <4>2, <4>4, <4>5 DEF InHand, InWorker, Sent
      <4>7. QED
        BY <4>2, <4>4, <4>5, <4>6
    <3>3. QED
      BY <3>1, <3>2
  <2>5. Ends'
    BY <2>4 DEF Ends
  <2>6. \E u \in Utterances : /\ Over(u)' /\ Passed(u)' \subseteq InHand'
                              /\ \A i \in InHand' : talker'[i] \in {Nobody, u}
    BY <1>1, <1>2, <1>4, <2>3, <2>4
  <2>7. Resetting' \/ Ending' => Silent(pending)'
    BY <2>4 DEF Silent
  <2>8. QED
    BY <1>1, <1>3, <2>4, <2>5, <2>6, <2>7 DEF WholeUtterances, FinalsWhole
<1>7. QED
  BY <1>5, <1>6

\* Nothing but what is newer is left out of a window that is large enough.
LEMMA LatestIsAll ==
  ASSUME NEW S \in SUBSET Chunks, Cardinality(S) <= Window PROVE Latest(Window, S) = S
<1>1. IsFiniteSet(Chunks)
  BY BoundsAssumption, FS_Interval DEF Chunks
<1>2. SUFFICES ASSUME NEW i \in S PROVE Cardinality({j \in S : j > i}) < Window
  BY DEF Latest
<1> DEFINE T == {j \in S : j > i}
<1>3. IsFiniteSet(S) /\ Cardinality(S) \in Nat
  BY <1>1, FS_Subset, FS_CardinalityType
<1>4. T \subseteq S /\ T # S
  BY BoundsAssumption DEF Chunks
<1>5. Cardinality(T) < Cardinality(S) /\ Cardinality(T) \in Nat
  BY <1>3, <1>4, FS_Subset, FS_CardinalityType
<1>6. QED
  BY <1>3, <1>5, BoundsAssumption

LEMMA WorkerAnswersWhole ==
  ASSUME BridgeInv, WholeUtterances, WorkerAnswers, failed = 0, failed' = 0
  PROVE  WholeUtterances'
<1> DEFINE h == stdin[1]
<1>1. /\ utterance' = utterance /\ spoken' = spoken
      /\ talking' = talking /\ talker' = talker /\ unheard' = unheard /\ stdin # <<>>
  BY DEF WorkerAnswers, speaker
<1>2. Head(stdin) = h /\ h \in Requests /\ flushing
  BY <1>1, Unqueued DEF BridgeInv, TypeOK, WholeUtterances
<1>3. h.awaited /\ Tail(stdin) = <<>>
  <2>1. Len(stdin) \in Nat /\ Len(stdin) >= 1 /\ Len(stdin) <= 1
    BY <1>1, Unqueued DEF BridgeInv, TypeOK, WholeUtterances
  <2>2. ASSUME NEW l \in Nat, l >= 1, l <= 1 PROVE 1 = l
    BY <2>2
  <2>3. 1 = Len(stdin)
    BY <2>1, <2>2, Zenon
  <2>4. h.awaited
    BY <1>2, <2>3 DEF BridgeInv, OneAwaited
  <2>5. QED
    BY <1>1, <2>3, <2>4, Unqueued DEF BridgeInv, TypeOK
<1>4. AudioRequest(h) \/ ResetRequest(h)
  BY <1>2 DEF WorkerAnswers
<1>5. /\ \A u : Passed(u)' = Passed(u) /\ Over(u)' = Over(u)
      /\ \A S : Of(S)' = Of(S) /\ Silent(S)' = Silent(S)
  BY <1>1 DEF Passed, Of, Over, Silent
<1>6. pending \in SUBSET Chunks /\ queuedEnd \in BOOLEAN
  BY DEF BridgeInv, TypeOK
<1>7. ASSUME Unanswered(h)
      PROVE  /\ finals' = finals /\ Len(stdin') <= 1 /\ (stdin' # <<>> => flushing')
             /\ ~Resetting' /\ ~queuedEnd' /\ (Ending' <=> queuedEnd)
             /\ Ending' => pending' = {}
             /\ InHand' = audio' \cup pending
  <2>1. finals' = finals /\ Finally(<<>>)
    BY <1>3, <1>7 DEF Unanswered
  <2>2. CASE Flush(<<>>, pending, queuedEnd)
    <3>1. /\ stdin' = Append(<<>>, Sent(pending, queuedEnd)) /\ flushing' = TRUE
          /\ queuedEnd' = FALSE /\ pending' = {}
      BY <2>2 DEF Flush, Sent
    <3>2. Append(<<>>, Sent(pending, queuedEnd)) = <<Sent(pending, queuedEnd)>>
      OBVIOUS
    <3>3. stdin' # <<>> /\ Len(stdin') = 1 /\ stdin'[1] = Sent(pending, queuedEnd)
      BY <3>1, <3>2
    <3>4. ~Resetting' /\ (Ending' <=> queuedEnd)
      BY <3>3 DEF Resetting, Ending, Sent
    <3>5. InHand' = audio' \cup pending
      BY <3>1, <3>3, <3>4 DEF InHand, InWorker, Sent
    <3>6. QED
      BY <2>1, <3>1, <3>3, <3>4, <3>5
  <2>3. CASE stdin' = <<>> /\ pending' = pending /\ ~queuedEnd /\ queuedEnd' = queuedEnd
    <3>1. ~Resetting' /\ ~Ending' /\ Len(stdin') = 0
      BY <2>3 DEF Resetting, Ending
    <3>2. InHand' = audio' \cup pending
      BY <2>3 DEF InHand, InWorker
    <3>3. QED
      BY <2>1, <2>3, <3>1, <3>2
  <2>4. QED
    BY <2>1, <2>2, <2>3 DEF Finally
<1>8. CASE AudioRequest(h)
  <2>1. h.method = "whisper.audio" /\ audio' = audio \cup h.pcm
    BY <1>8 DEF AudioRequest
  <2>2. ~Resetting /\ (Ending <=> h.speech_end) /\ InHand = audio' \cup pending
    BY <1>1, <2>1 DEF Resetting, Ending, InHand, InWorker
  <2>3. CASE (~h.speech_end \/ audio' = {}) /\ Unanswered(h) /\ cut' = cut
    <3>1. InHand' = InHand /\ finals' = finals
      BY <1>7, <2>2, <2>3
    <3>2. FinalsWhole'
      BY <1>5, <2>3, <3>1 DEF WholeUtterances, FinalsWhole
    <3>3. CASE h.speech_end
      <4>1. Ending /\ ~queuedEnd /\ Ends
        BY <2>2, <3>3 DEF WholeUtterances, Ends
      <4>2. ~Ending' /\ ~Ends' /\ ~Resetting' /\ ~queuedEnd'
        BY <1>7, <2>3, <4>1 DEF Ends
      <4>3. InHand' = pending
        BY <1>7, <2>3, <3>3
      <4>4. Silent(pending) /\ (talking => Passed(utterance) = {})
        BY <4>1 DEF WholeUtterances
      <4>5. /\ \A i \in InHand' : talker'[i] \in {Nobody, utterance'}
            /\ talking' => Passed(utterance)' \subseteq InHand'
            /\ ~talking' => Silent(InHand)'
        BY <1>1, <1>5, <4>3, <4>4 DEF Silent
      <4>6. QED
        BY <1>7, <2>3, <3>2, <4>2, <4>5 DEF WholeUtterances, FinalsWhole
    <3>4. CASE ~h.speech_end
      <4>1. ~Ending /\ (Ends <=> queuedEnd) /\ (Ends' <=> queuedEnd) /\ ~Resetting' /\ ~queuedEnd'
        BY <1>7, <2>2, <2>3, <3>4 DEF Ends
      <4>2. ~Ends' => /\ \A i \in InHand' : talker'[i] \in {Nobody, utterance'}
                      /\ talking' => Passed(utterance)' \subseteq InHand'
                      /\ ~talking' => Silent(InHand)'
        BY <1>1, <1>5, <3>1, <4>1 DEF WholeUtterances, Silent
      <4>3. Ends' /\ talking' => Passed(utterance)' = {}
        BY <1>1, <1>5, <4>1 DEF WholeUtterances
      <4>4. queuedEnd' \/ Ending' =>
              \E u \in Utterances : /\ Over(u)' /\ Passed(u)' \subseteq InHand'
                                    /\ \A i \in InHand' : talker'[i] \in {Nobody, u}
        BY <1>1, <1>5, <1>7, <2>3, <3>1, <4>1 DEF WholeUtterances
      <4>5. Resetting' \/ Ending' => Silent(pending)'
        BY <1>7, <2>3, <4>1 DEF Silent
      <4>6. QED
        BY <1>7, <2>3, <3>2, <4>1, <4>2, <4>3, <4>4, <4>5 DEF WholeUtterances, FinalsWhole
    <3>5. QED
      BY <3>3, <3>4
  <2>4. CASE failed' = failed + 1
    BY <2>4
  <2>5. CASE /\ h.speech_end /\ audio' # {} /\ Answered(h, Latest(Window, audio'))
             /\ cut' = (cut \/ Cardinality(audio') > Window)
    <3> DEFINE words == Latest(Window, audio')
    <3>0. words \subseteq audio'
      BY DEF Latest
    <3>1. audio' \in SUBSET Chunks
      <4>1. h.pcm \in SUBSET Chunks
        BY <1>2, <2>1, RequestKinds
      <4>2. QED
        BY <2>1, <4>1 DEF BridgeInv, TypeOK
    <3>2. Cardinality(audio') <= Window => words = audio'
      BY <3>1, LatestIsAll
    <3>3. cut \in BOOLEAN /\ (cut => cut') /\ (~cut' => ~(Cardinality(audio') > Window))
      BY <2>5 DEF BridgeInv, TypeOK
    <3>4. cut' \/ words = audio'
      <4>1. Cardinality(audio') \in Nat
        <5>1. IsFiniteSet(Chunks)
          BY BoundsAssumption, FS_Interval DEF Chunks
        <5>2. QED
          BY <3>1, <5>1, FS_Subset, FS_CardinalityType
      <4>2. Cardinality(audio') > Window \/ Cardinality(audio') <= Window
        BY <4>1, BoundsAssumption
      <4>3. QED
        BY <3>2, <3>3, <4>2
    <3>5. Answered(h, words)
      BY <2>5
    <3> HIDE DEF words
    <3>6. /\ finals' = IF Of(words) = {} THEN finals ELSE Append(finals, words)
          /\ stdin' = <<[method |-> "whisper.reset", awaited |-> TRUE]>>
          /\ pending' = {} /\ queuedEnd' = FALSE /\ flushing' = TRUE
      <4>1. words \in SUBSET Chunks
        BY <3>0, <3>1
      <4>2. flushing' = flushing
        BY <1>1, <1>3, <3>5, <4>1, AnsweredEffect
      <4>3. QED
        BY <1>1, <1>2, <1>3, <3>5, <4>1, <4>2, AnsweredEffect DEF BridgeInv, TypeOK
    <3>7. /\ stdin' # <<>> /\ Len(stdin') = 1 /\ stdin'[1].method = "whisper.reset"
      BY <3>6
    <3>8. Resetting' /\ ~Ending' /\ ~queuedEnd' /\ Ends' /\ InHand' = {}
      BY <3>6, <3>7 DEF Resetting, Ending, Ends, InHand, InWorker
    <3>9. Ending /\ Ends /\ Silent(pending)
      BY <2>2, <2>5 DEF WholeUtterances, Ends
    <3>10. PICK u \in Utterances : /\ Over(u) /\ Passed(u) \subseteq InHand
                                   /\ \A i \in InHand : talker[i] \in {Nobody, u}
      BY <3>9 DEF WholeUtterances
    <3>11. u # Nobody
      BY BoundsAssumption DEF Utterances, Nobody
    <3>12. Passed(u) \subseteq audio'
      <4>1. \A i \in Passed(u) : talker[i] = u
        BY DEF Passed
      <4>2. QED
        BY <2>2, <3>9, <3>10, <3>11, <4>1 DEF Silent
    <3>13. Of(words) # {} => Of(words) = {u}
      BY <2>2, <3>0, <3>10 DEF Of
    <3>14. FinalsWhole'
      <4>1. \A k \in DOMAIN finals :
              \E v \in Utterances : /\ Over(v)' /\ {talker'[i] : i \in finals[k]} \ {Nobody} = {v}
                                    /\ cut' \/ Passed(v)' \subseteq finals[k]
        <5>1. SUFFICES ASSUME NEW k \in DOMAIN finals
                       PROVE  \E v \in Utterances : /\ Over(v)' /\ {talker'[i] : i \in finals[k]} \ {Nobody} = {v}
                                                    /\ cut' \/ Passed(v)' \subseteq finals[k]
          OBVIOUS
        <5>2. PICK v \in Utterances : /\ Over(v) /\ Of(finals[k]) = {v}
                                      /\ cut \/ Passed(v) \subseteq finals[k]
          BY DEF WholeUtterances, FinalsWhole
        <5>3. {talker'[i] : i \in finals[k]} \ {Nobody} = {v}
          BY <1>1, <5>2 DEF Of
        <5>4. QED
          BY <1>5, <3>3, <5>2, <5>3
      <4>2. CASE Of(words) = {}
        BY <3>6, <4>1, <4>2 DEF FinalsWhole, Of
      <4>3. CASE Of(words) # {}
        <5>1. finals' = Append(finals, words) /\ finals \in Seq(SUBSET Chunks)
              /\ words \in SUBSET Chunks
          BY <3>0, <3>1, <3>6, <4>3 DEF BridgeInv, TypeOK
        <5>2. /\ DOMAIN finals' = DOMAIN finals \cup {Len(finals) + 1}
              /\ finals'[Len(finals) + 1] = words
              /\ \A i \in DOMAIN finals : finals'[i] = finals[i]
          BY <5>1, FinalsAdd
        <5>3. cut' \/ Passed(u) \subseteq words
          BY <3>4, <3>12
        <5>4. \A k \in DOMAIN finals' :
                \E v \in Utterances : /\ Over(v)' /\ {talker'[i] : i \in finals'[k]} \ {Nobody} = {v}
                                      /\ cut' \/ Passed(v)' \subseteq finals'[k]
          BY <1>1, <1>5, <3>10, <3>13, <4>1, <4>3, <5>2, <5>3 DEF Of
        <5>5. QED
          BY <5>4 DEF FinalsWhole, Of
      <4>4. QED
        BY <4>2, <4>3
    <3>15. Ends' /\ talking' => Passed(utterance)' = {}
      BY <1>1, <1>5, <3>9 DEF WholeUtterances
    <3>16. Silent(pending)' /\ Len(stdin') <= 1
      BY <3>6, <3>7 DEF Silent
    <3>17. QED
      BY <3>6, <3>8, <3>14, <3>15, <3>16 DEF WholeUtterances, FinalsWhole
  <2>6. QED
    BY <1>8, <2>3, <2>4, <2>5 DEF AudioRequest
<1>9. CASE ResetRequest(h)
  <2>1. h.method = "whisper.reset" /\ audio' = {} /\ Unanswered(h) /\ cut' = cut
    BY <1>9 DEF ResetRequest
  <2>2. Resetting /\ Ends /\ ~queuedEnd
    BY <1>1, <2>1 DEF Resetting, Ends, WholeUtterances
  <2>3. /\ InHand' = pending /\ ~Ending' /\ ~Ends' /\ ~Resetting' /\ ~queuedEnd' /\ finals' = finals
    BY <1>7, <2>1, <2>2 DEF Ends
  <2>4. Silent(pending) /\ (talking => Passed(utterance) = {})
    BY <2>2 DEF WholeUtterances
  <2>5. /\ \A i \in InHand' : talker'[i] \in {Nobody, utterance'}
        /\ talking' => Passed(utterance)' \subseteq InHand'
        /\ ~talking' => Silent(InHand)'
    BY <1>1, <1>5, <2>3, <2>4 DEF Silent
  <2>6. FinalsWhole'
    BY <1>5, <2>1, <2>3 DEF WholeUtterances, FinalsWhole
  <2>7. QED
    BY <1>7, <2>1, <2>3, <2>5, <2>6 DEF WholeUtterances, FinalsWhole
<1>10. QED
  BY <1>4, <1>8, <1>9

LEMMA WordsNext == WordsInv /\ [Next]_vars => WordsInv'
<1> SUFFICES ASSUME WordsInv, [Next]_vars PROVE WordsInv'
  OBVIOUS
<1>0. BridgeInv /\ failed \in Nat /\ overlapped \in BOOLEAN
      /\ (~overlapped /\ failed = 0 => WholeUtterances)
  BY DEF WordsInv, BridgeInv, TypeOK
<1>1. CASE WarmedUp
  <2>1. overlapped' = overlapped /\ failed' = failed
    BY <1>1 DEF WarmedUp, history
  <2>2. QED
    BY <1>0, <1>1, <2>1, WarmedUpKeeps, WarmedUpWhole DEF WordsInv
<1>2. CASE StartSpeaking
  <2>1. overlapped' = overlapped /\ failed' = failed
    BY <1>2 DEF StartSpeaking, history
  <2>2. QED
    BY <1>0, <1>2, <2>1, StartSpeakingKeeps, StartSpeakingWhole DEF WordsInv
<1>3. CASE PushAudio
  <2>1. (overlapped => overlapped') /\ failed' = failed
    <3>1. CASE ~localWhisperActive
      <4>1. overlapped' = overlapped /\ failed' = failed
        BY <1>3, <3>1 DEF PushAudio
      <4>2. QED
        BY <4>1
    <3>2. CASE localWhisperActive
      BY <1>0, <1>3, <3>2 DEF PushAudio
    <3>3. QED
      BY <3>1, <3>2 DEF WordsInv, BridgeInv, TypeOK
  <2>2. QED
    BY <1>0, <1>3, <2>1, PushAudioKeeps, PushAudioWhole DEF WordsInv
<1>4. CASE StopSpeaking
  <2>1. (overlapped => overlapped') /\ failed' = failed
    <3>1. CASE ~localWhisperActive
      BY <1>4, <3>1 DEF StopSpeaking
    <3>2. CASE localWhisperActive
      BY <1>0, <1>4, <3>2 DEF StopSpeaking
    <3>3. QED
      BY <3>1, <3>2 DEF WordsInv, BridgeInv, TypeOK
  <2>2. QED
    BY <1>0, <1>4, <2>1, StopSpeakingKeeps, StopSpeakingWhole DEF WordsInv
<1>5. CASE WorkerAnswers
  <2>1. overlapped' = overlapped
    BY <1>5 DEF WorkerAnswers
  <2>2. failed' = failed \/ failed' = failed + 1
    BY <1>5 DEF WorkerAnswers, AudioRequest, ResetRequest
  <2>3. failed' = 0 => failed = 0
    BY <1>0, <2>2
  <2>4. QED
    BY <1>0, <1>5, <2>1, <2>3, WorkerAnswersKeeps, WorkerAnswersWhole DEF WordsInv
<1>6. CASE RequestTimeout \/ WorkerDies
  <2>1. failed' = failed + 1
    BY <1>6 DEF RequestTimeout, WorkerDies
  <2>2. failed' # 0
    BY <1>0, <2>1
  <2>3. QED
    BY <1>0, <1>6, <2>2, LossesKeep DEF WordsInv
<1>7. CASE UNCHANGED vars
  <2>1. UNCHANGED <<localWhisperActive, pending, flushing, queuedEnd, stdin, audio, spoken, talker,
                    utterance, talking, unheard, finals, ended, overlapped, failed, cut>>
    BY <1>7 DEF vars, bridge, worker, speaker, history
  <2>2. BridgeInv'
    BY <1>0, <2>1 DEF BridgeInv, TypeOK, OneAwaited, BeforeWarmUp, HeardIsGone, NotIn, NotYetIn, Resetting
  <2>3. WholeUtterances' = WholeUtterances
    <3>1. /\ Resetting' = Resetting /\ Ending' = Ending /\ Ends' = Ends /\ InHand' = InHand
      BY <2>1 DEF Resetting, Ending, Ends, InHand, InWorker
    <3>2. FinalsWhole' = FinalsWhole /\ (Silent(InHand))' = Silent(InHand) /\ Silent(pending)' = Silent(pending)
      BY <2>1, <3>1 DEF FinalsWhole, Silent, Over, Of, Passed
    <3>3. \A u : Passed(u)' = Passed(u) /\ Over(u)' = Over(u)
      BY <2>1 DEF Over, Passed
    <3>4. QED
      BY <2>1, <3>1, <3>2, <3>3 DEF WholeUtterances, Passed
  <2>4. QED
    BY <1>0, <2>1, <2>2, <2>3 DEF WordsInv
<1>8. QED
  BY <1>1, <1>2, <1>3, <1>4, <1>5, <1>6, <1>7 DEF Next

LEMMA WordsConclude == WordsInv => HeardInOrder
<1> SUFFICES ASSUME WordsInv PROVE HeardInOrder
  OBVIOUS
<1>1. FinalsAreUtterances
  BY DEF WordsInv, WholeUtterances, FinalsWhole, FinalsAreUtterances
<1>2. WordsAreHeardOnce
  BY DEF WordsInv, BridgeInv, HeardIsGone, WordsAreHeardOnce, Of
<1>3. QED
  BY <1>1, <1>2 DEF HeardInOrder

\* What is routed as spoken requests are the utterances: no word is in two final texts,
\* whatever times out, dies or overlaps, and a final text is one utterance, whole but for
\* the window, unless the user spoke on while an end was served or a request failed.
THEOREM WordsAreHeard == Spec => []HeardInOrder
<1>1. Spec => []WordsInv
  BY WordsBegin, WordsNext, PTL DEF Spec
<1>2. QED
  BY <1>1, WordsConclude, PTL
=============================================================================
