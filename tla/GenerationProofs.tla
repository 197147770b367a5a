-------------------------- MODULE GenerationProofs --------------------------
(* The engine's generation, from the open that publishes it to the file that  *)
(* outlives it.  First the safety of Open, for every bound on the attempts    *)
(* and every reason of a refresh: its type, the order in which a device is    *)
(* brought up, what a ready session has, and that a reference is published    *)
(* and dropped as one.  Then StateFile, what Preprocess learns, and Store,    *)
(* which puts the two together, for every limit of the preprocessing, every   *)
(* number of frames and of faults.                                            *)
EXTENDS Open, Store, TLAPS

\* ---------------------------------------------------------------------------
\* The session record.

Generations == [id : 0 .. 3, setup : Token, ready : BOOLEAN, refresh : BOOLEAN]

References == [ref : Token, id : 0 .. 3, pending : BOOLEAN]

Bases == [forced : BOOLEAN, reason : Reason \cup {"NONE"}, first : Token,
          leave : BOOLEAN, error : Error]

Sessions ==
  [life : Life, open : OpenState, sub : Child, at : ChildState, n : Nat,
   error : Error, joined : Error, claimed : BOOLEAN, resetRequired : BOOLEAN,
   recoveryAttempted : BOOLEAN, gtlsFailed : BOOLEAN, needsReinit : BOOLEAN,
   powered : BOOLEAN, cancelled : BOOLEAN, removed : BOOLEAN, sensorKey : Key,
   file : File, psk : {"default", "windows"}, imported : BOOLEAN,
   verifyPending : BOOLEAN, established : BOOLEAN, gen : Generations,
   retained : BOOLEAN, hw : References, fdt : Token, baseValid : BOOLEAN,
   recoveryPending : BOOLEAN, base : Bases,
   arm : {"none", "FIRST", "CONFIG", "REPEAT"}, esd : [notice : BOOLEAN]]

\* ---------------------------------------------------------------------------
\* The invariant, of the session between two callbacks and in the middle of one,
\* where a child that has ended is still to be joined.

Bringing(t) == t.life \in {"opening", "reinit"}

\* The states an open machine waits in while a child runs.
Delegating == {"PING", "RESET", "GTLS", "CAPTURE_REF"}

ProbeState == {"PING", "FIRMWARE", "AFTER_DELAY"}

ChipState == {"INITIAL_RESET", "READ", "RECOVERY_RESET", "AFTER_DELAY"}

GtlsState == {"HELLO", "IDENTITY", "VERIFY", "COMPLETION", "RETRY"}

\* The commands of an acquisition before it has a sample, and with one.
Cleaning == {"CLEANUP_SLEEP", "CLEANUP_EC_POWER_OFF"}

Unsampled == Cleaning \cup {"UPLOAD_CONFIG", "FDT_TX_ON_BEFORE"}

Sampled == {"CAPTURE_TX_ON", "FDT_TX_OFF", "HEALTH_FIRST", "HEALTH_SECOND", "VALIDATE",
            "CAPTURE_TX_OFF", "FDT_TX_ON_AFTER"}

EsdState == {"RESET", "RESET_AGAIN", "CHIP", "RETRY", "FAILED_READ_RESET",
             "EXHAUSTED_RESET", "CONFIG"}

\* Who runs: a machine of the open, or a child for it, for the resume or for the
\* coordinator, each with its own commands and its own count.
Children(t) ==
  /\ t.sub \in {"none", "joined"} => t.at = "none" /\ t.n = 0
  /\ t.sub = "probe" => t.open = "PING" /\ t.at \in ProbeState /\ t.n <= ProbeFailures
                        /\ (t.at # "AFTER_DELAY" => t.n < ProbeFailures)
  /\ t.sub = "chip" => t.open = "RESET" /\ t.at \in ChipState /\ t.n <= ChipFailures
                       /\ (t.at \in {"INITIAL_RESET", "READ"} => t.n < ChipFailures)
  /\ t.sub = "gtls" => (t.open = "GTLS" \/ t.life \in {"warm", "ready"})
                       /\ t.at \in GtlsState /\ t.n <= 2 * GtlsGroup
  /\ t.sub = "base" => t.at \in Unsampled \cup Sampled /\ t.n = 0
                       /\ IF t.base.forced THEN t.life = "ready" ELSE t.open = "CAPTURE_REF"
  /\ t.sub # "base" => t.base = NoBase
  /\ t.sub = "esd" => t.life = "ready" /\ t.n <= EsdResets
                      /\ IF t.arm = "none" THEN t.at \in EsdState ELSE t.at = "ARM"
  /\ t.sub # "esd" => t.esd = NoEsd
  /\ t.sub = "arm" => t.life = "ready" /\ t.at = "none" /\ t.n = 0
  /\ t.arm # "none" => t.sub \in {"arm", "esd"}

Machines(t) ==
  /\ t.open # "none" <=> Bringing(t)
  /\ t.life \in {"closed", "suspended"} => t.sub = "none"
  /\ t.life = "warm" => t.sub \in {"gtls", "joined"}
  /\ Bringing(t) => (t.open \in Delegating <=> t.sub # "none")
  /\ t.error # "none" <=> t.open \in {"SLEEP", "EC_POWER_OFF"}
  /\ t.joined # "none" => t.sub = "joined"

\* After the key was confirmed, and after the handshake.
Confirmed == {"GTLS", "UPLOAD_CONFIG", "CAPTURE_REF", "FINAL_FIRMWARE", "FINAL_SLEEP"}

Handshaken == Confirmed \ {"GTLS"}

\* The states of an open machine that need no claim: a cleanup may follow a
\* reset that failed.
Unclaimed == {"none", "USB_RESET", "CLAIM_INTERFACE", "SLEEP", "EC_POWER_OFF"}

\* What the steps of an initialization and of a handshake rely on.
Ordered(t) ==
  /\ t.open \in {"USB_RESET", "CLAIM_INTERFACE"} \/ t.life = "closed" => ~t.claimed
  /\ t.open \notin Unclaimed \/ t.life = "warm" => t.claimed
  /\ t.open \in {"WRITE_PSK", "VERIFY_PSK_WRITE"} => t.verifyPending
  /\ t.open \in Confirmed => t.sensorKey = t.psk
  /\ t.open \in Handshaken => t.established
  /\ t.sub = "gtls" /\ t.at \in {"VERIFY", "COMPLETION"} => t.sensorKey = t.psk
  /\ t.sub = "joined" /\ t.joined = "none" /\ (t.open = "GTLS" \/ t.life = "warm")
       => t.established /\ t.sensorKey = t.psk

\* The sessions that are ready without more ado, or as soon as they end well.
Finishing(t) ==
  \/ t.life \in {"ready", "suspended"} /\ ~t.needsReinit
  \/ t.life = "warm"
  \/ t.open \in {"FINAL_FIRMWARE", "FINAL_SLEEP"}
  \/ t.open = "CAPTURE_REF" /\ t.sub = "joined" /\ t.joined = "none"

\* The open machine before it acquires a reference, and the closed session.
Early == {"USB_RESET", "CLAIM_INTERFACE", "PING", "RESET", "READ_OTP", "READ_PSK_HASH",
          "WRITE_PSK", "VERIFY_PSK_WRITE", "GTLS", "UPLOAD_CONFIG"}

Sound(t) == t.baseValid => t.hw.ref # None /\ t.fdt = t.hw.ref

\* The generation and the hardware's reference, in any state of any machine.
Whole(t) ==
  /\ t.gen # NoGeneration => t.gen.id # None /\ t.hw.ref # None /\ ~t.retained
  /\ t.hw.ref # None => t.hw.id # None
  /\ t.hw.pending => t.gen # NoGeneration
  /\ t.gen # NoGeneration /\ t.gen.id = t.hw.id => t.gen.setup = t.hw.ref

\* A session that may be ready has a sound reference, or the recovery of one.
Fit(t) == Sound(t) /\ (t.gen # NoGeneration \/ t.recoveryPending)

\* What is published together, and the reference an acquisition is about to
\* publish.
Published(t) ==
  /\ Whole(t)
  /\ t.open \in Early \/ t.life = "closed" \/ (t.sub = "base" /\ ~t.base.forced)
       => t.gen = NoGeneration
  /\ t.sub = "base" /\ t.at \in Sampled => t.base.first # None
  /\ t.sub = "base" /\ t.at \in Cleaning /\ ~t.base.forced => t.base.error # "none"
  /\ t.open = "CAPTURE_REF" => Sound(t)
  /\ Finishing(t) => Fit(t)

Inv(t) == t \in Sessions /\ Children(t) /\ Machines(t) /\ Ordered(t) /\ Published(t)

IInv == Inv(s) /\ s.sub # "joined"

\* A step into a session that is ready with nothing to rebuild.
Granted(t, u) ==
  t.life # "ready" /\ u.life = "ready" /\ ~u.needsReinit
    => u.claimed /\ u.established /\ u.sensorKey = u.psk

\* ---------------------------------------------------------------------------
\* The end of an open machine.

\* An open machine that waits for nothing any more.
Ending(t) ==
  /\ t \in Sessions /\ Bringing(t) /\ t.sub = "none" /\ t.joined = "none"
  /\ t.at = "none" /\ t.n = 0 /\ t.arm = "none" /\ t.base = NoBase /\ t.esd = NoEsd
  /\ Whole(t)

LEMMA Nothing ==
  /\ NoGeneration \in Generations /\ NoReference \in References
  /\ NoGeneration.id = None /\ NoReference.ref = None /\ ~NoReference.pending
  /\ NoReference.id = None
  BY DEF NoGeneration, NoReference, Generations, References, Token, None

LEMMA ForgetFacts ==
  ASSUME NEW t \in Sessions
  PROVE  LET u == ForgetHardware(t)
         IN  /\ u \in Sessions /\ u.gen = NoGeneration /\ u.hw = NoReference
             /\ \A f \in DOMAIN u \ {"gen", "retained", "hw"} : u[f] = t[f]
<1> DEFINE r == t.retained \/ t.gen # NoGeneration
           u == [t EXCEPT !.retained = r, !.gen = NoGeneration, !.hw = NoReference]
<1>1. ForgetHardware(t) = u /\ r \in BOOLEAN
  BY DEF ForgetHardware, RetainProcess, Sessions
<1> HIDE DEF r
<1>2. u \in Sessions /\ u.gen = NoGeneration /\ u.hw = NoReference
  BY ZenonT(40), <1>1, Nothing DEF Sessions
<1>3. \A f \in DOMAIN u \ {"gen", "retained", "hw"} : u[f] = t[f]
  OBVIOUS
<1> QED
  BY <1>1, <1>2, <1>3

LEMMA DropFacts ==
  ASSUME NEW t, Ending(t)
  PROVE  LET u == DropSession(t)
         IN  /\ Ending(u) /\ u.gen = NoGeneration /\ u.hw = NoReference
             /\ u.life = t.life /\ u.error = t.error /\ u.open = t.open
<1> DEFINE f == ForgetHardware(t)
           u == [f EXCEPT !.psk = "default", !.imported = FALSE]
<1>1. DropSession(t) = u
  BY DEF DropSession
<1>2. f \in Sessions /\ f.gen = NoGeneration /\ f.hw = NoReference
      /\ \A g \in DOMAIN f \ {"gen", "retained", "hw"} : f[g] = t[g]
  BY ForgetFacts DEF Ending
<1> HIDE DEF f
<1>3. /\ f.life = t.life /\ f.open = t.open /\ f.error = t.error /\ f.sub = t.sub
      /\ f.joined = t.joined /\ f.at = t.at /\ f.n = t.n /\ f.arm = t.arm
      /\ f.base = t.base /\ f.esd = t.esd
  BY <1>2 DEF Sessions
<1>4. u \in Sessions
  BY ZenonT(40), <1>2 DEF Sessions
<1>5. /\ u.life = t.life /\ u.open = t.open /\ u.error = t.error /\ u.sub = t.sub
      /\ u.joined = t.joined /\ u.at = t.at /\ u.n = t.n /\ u.arm = t.arm
      /\ u.base = t.base /\ u.esd = t.esd /\ u.gen = NoGeneration /\ u.hw = NoReference
  BY <1>2, <1>3 DEF Sessions
<1> HIDE DEF u
<1> QED
  BY <1>1, <1>4, <1>5, Nothing DEF Ending, Bringing, Whole

LEMMA StartOpenInv ==
  ASSUME NEW t, Ending(t), t.gen = NoGeneration, ~t.claimed
  PROVE  LET u == StartOpen(t) IN Inv(u) /\ u.life = t.life /\ u.sub = "none"
<1> DEFINE u == [t EXCEPT !.open = "USB_RESET", !.error = "none", !.gtlsFailed = FALSE]
<1>1. StartOpen(t) = u
  BY DEF StartOpen
<1>2. u \in Sessions
  BY ZenonT(40) DEF Ending, Sessions, OpenState, Error
<1>3. /\ u.life = t.life /\ u.open = "USB_RESET" /\ u.error = "none" /\ u.sub = "none"
      /\ u.joined = "none" /\ u.at = "none" /\ u.n = 0 /\ u.arm = "none"
      /\ u.base = NoBase /\ u.esd = NoEsd /\ u.gen = NoGeneration /\ u.hw = t.hw
      /\ u.retained = t.retained /\ u.claimed = t.claimed
  BY DEF Ending, Sessions
<1> HIDE DEF u
<1>4. Bringing(u) /\ u.life \notin {"closed", "suspended", "warm", "ready"}
  BY <1>3 DEF Ending, Bringing
<1>5. Children(u)
  BY <1>3 DEF Children
<1>6. Machines(u)
  BY <1>3, <1>4 DEF Machines, Delegating
<1>7. Ordered(u)
  BY <1>3, <1>4 DEF Ordered, Unclaimed, Confirmed, Handshaken
<1>8. Published(u)
  BY <1>3, <1>4 DEF Ending, Published, Whole, Finishing
<1> QED
  BY <1>1, <1>2, <1>3, <1>5, <1>6, <1>7, <1>8 DEF Inv

\* A session in which no machine runs.
Quiet(t) ==
  /\ t \in Sessions /\ t.open = "none" /\ t.error = "none" /\ t.sub = "none"
  /\ t.joined = "none" /\ t.at = "none" /\ t.n = 0 /\ t.arm = "none"
  /\ t.base = NoBase /\ t.esd = NoEsd /\ Whole(t)

\* The session at rest, with something to rebuild or not.
Rested(t, b) == [t EXCEPT !.life = "ready", !.needsReinit = b, !.cancelled = FALSE]

LEMMA ReadyInv ==
  ASSUME NEW t, Quiet(t), NEW b \in BOOLEAN, ~b => Fit(t)
  PROVE  LET r == Rested(t, b)
         IN  /\ Inv(r) /\ r.sub = "none" /\ r.needsReinit = b /\ r.claimed = t.claimed
             /\ r.psk = t.psk /\ r.established = t.established
             /\ r.sensorKey = t.sensorKey /\ r.life = "ready"
<1> DEFINE r == [t EXCEPT !.life = "ready", !.needsReinit = b, !.cancelled = FALSE]
<1>1. r \in Sessions
  BY ZenonT(40) DEF Quiet, Sessions, Life
<1>2. /\ r.life = "ready" /\ r.open = "none" /\ r.error = "none" /\ r.sub = "none"
      /\ r.joined = "none" /\ r.at = "none" /\ r.n = 0 /\ r.arm = "none"
      /\ r.base = NoBase /\ r.esd = NoEsd /\ r.gen = t.gen /\ r.hw = t.hw
      /\ r.retained = t.retained /\ r.claimed = t.claimed /\ r.baseValid = t.baseValid
      /\ r.fdt = t.fdt /\ r.recoveryPending = t.recoveryPending /\ r.psk = t.psk
      /\ r.established = t.established /\ r.sensorKey = t.sensorKey
      /\ r.needsReinit = b
  BY DEF Quiet, Sessions
<1> HIDE DEF r
<1>3. Children(r)
  BY <1>2 DEF Children
<1>4. Machines(r)
  BY <1>2 DEF Machines, Bringing, Delegating
<1>5. Ordered(r)
  BY <1>2 DEF Ordered, Unclaimed, Confirmed, Handshaken
<1>6. Published(r)
  BY <1>2 DEF Quiet, Published, Whole, Finishing, Fit, Sound, Early
<1> QED
  BY <1>1, <1>2, <1>3, <1>4, <1>5, <1>6 DEF Inv, Rested, r

\* The end of an open machine: what it leaves may be ready only if the machine
\* ended without an error.
LEMMA OpenDoneInv ==
  ASSUME NEW t, Ending(t), t.error = "none" => Fit(t)
  PROVE  LET u == OpenDone(t)
         IN  /\ Inv(u) /\ u.sub = "none"
             /\ u.life = "ready" /\ ~u.needsReinit =>
                  /\ t.error = "none" /\ u.claimed = t.claimed /\ u.psk = t.psk
                  /\ u.established = t.established /\ u.sensorKey = t.sensorKey
<1> DEFINE powers == t.powered /\ t.life = "reinit"
           u == [t EXCEPT !.open = "none", !.error = "none", !.powered = powers]
<1>1. OpenDone(t) =
        IF t.error = "none" THEN Ready(u)
        ELSE IF t.life = "reinit" THEN Unready(u)
        ELSE IF MayRetry(t) THEN Retry(DropSession(u))
        ELSE CleanupFailedOpen(DropSession(u))
  BY DEF OpenDone
<1>2. powers \in BOOLEAN
  BY DEF Ending, Sessions
<1> HIDE DEF powers
<1>3. u \in Sessions
  BY ZenonT(40), <1>2 DEF Ending, Sessions, OpenState, Error
<1>4. /\ u.life = t.life /\ u.open = "none" /\ u.error = "none" /\ u.sub = "none"
      /\ u.joined = "none" /\ u.at = "none" /\ u.n = 0 /\ u.arm = "none"
      /\ u.base = NoBase /\ u.esd = NoEsd /\ u.gen = t.gen /\ u.hw = t.hw
      /\ u.retained = t.retained /\ u.claimed = t.claimed /\ u.baseValid = t.baseValid
      /\ u.fdt = t.fdt /\ u.recoveryPending = t.recoveryPending /\ u.psk = t.psk
      /\ u.established = t.established /\ u.sensorKey = t.sensorKey
  BY <1>2 DEF Ending, Sessions
<1> HIDE DEF u
<1>5. Ending(u)
  BY <1>3, <1>4 DEF Ending, Bringing, Whole
<1>6. ASSUME NEW b \in BOOLEAN, ~b => Fit(t)
      PROVE  LET r == Rested(u, b)
             IN  /\ Inv(r) /\ r.sub = "none" /\ r.needsReinit = b /\ r.claimed = t.claimed
                 /\ r.psk = t.psk /\ r.established = t.established
                 /\ r.sensorKey = t.sensorKey
  <2>1. Quiet(u) /\ (~b => Fit(u))
    BY <1>3, <1>4, <1>5, <1>6 DEF Ending, Quiet, Fit, Sound
  <2> QED
    BY <1>4, <2>1, ReadyInv
<1>7. CASE t.error = "none"
  <2>1. OpenDone(t) = Rested(u, FALSE)
    BY <1>1, <1>7 DEF Ready, Rested
  <2> QED
    BY <1>6, <1>7, <2>1
<1>8. CASE t.error # "none" /\ t.life = "reinit"
  <2>1. OpenDone(t) = Rested(u, TRUE)
    BY <1>1, <1>8 DEF Unready, Rested
  <2> QED
    BY <1>6, <2>1
<1>9. CASE t.error # "none" /\ t.life # "reinit"
  <2> DEFINE d == DropSession(u)
  <2>1. Ending(d) /\ d.gen = NoGeneration /\ d.hw = NoReference /\ d.life = "opening"
        /\ d.open = "none" /\ d.error = "none"
    BY <1>4, <1>5, <1>9, DropFacts DEF Ending, Bringing
  <2> HIDE DEF d
  <2>2. CASE OpenDone(t) = Retry(d)
    <3> DEFINE v == [d EXCEPT !.recoveryAttempted = TRUE, !.claimed = FALSE,
                              !.resetRequired = TRUE]
    <3>1. v \in Sessions
      BY ZenonT(40), <2>1 DEF Ending, Sessions
    <3>2. /\ v.life = d.life /\ v.sub = "none" /\ v.joined = "none" /\ v.at = "none"
          /\ v.n = 0 /\ v.arm = "none" /\ v.base = NoBase /\ v.esd = NoEsd
          /\ v.gen = NoGeneration /\ v.hw = d.hw /\ v.retained = d.retained
          /\ ~v.claimed
      BY <2>1 DEF Ending, Sessions
    <3> HIDE DEF v
    <3>3. Ending(v)
      BY <2>1, <3>1, <3>2 DEF Ending, Bringing, Whole
    <3>4. OpenDone(t) = StartOpen(v)
      BY <2>2 DEF Retry, v
    <3> QED
      BY <2>1, <3>2, <3>3, <3>4, StartOpenInv
  <2>3. CASE OpenDone(t) = CleanupFailedOpen(d)
    <3> DEFINE no == FALSE
               v == [d EXCEPT !.claimed = no, !.life = "closed", !.cancelled = no]
    <3>a. no \in BOOLEAN /\ ~no
      OBVIOUS
    <3> HIDE DEF no
    <3>1. v \in Sessions
      BY ZenonT(40), <2>1, <3>a DEF Ending, Sessions, Life
    <3>2. /\ v.life = "closed" /\ v.sub = "none" /\ v.joined = "none" /\ v.at = "none"
          /\ v.n = 0 /\ v.arm = "none" /\ v.base = NoBase /\ v.esd = NoEsd
          /\ v.gen = NoGeneration /\ v.hw = NoReference /\ ~v.claimed
          /\ v.open = "none" /\ v.error = "none"
      BY <2>1, <3>a DEF Ending, Sessions
    <3> HIDE DEF v
    <3>3. Children(v) /\ Machines(v)
      BY <3>2 DEF Children, Machines, Bringing, Delegating
    <3>4. Ordered(v)
      BY <3>2 DEF Ordered, Unclaimed, Confirmed, Handshaken
    <3>5. Published(v)
      BY <3>2, Nothing DEF Published, Whole, Finishing, Early
    <3>6. OpenDone(t) = v
      BY <2>3 DEF CleanupFailedOpen, v, no
    <3> QED
      BY <3>1, <3>2, <3>3, <3>4, <3>5, <3>6 DEF Inv
  <2> QED
    BY <1>1, <1>9, <2>2, <2>3 DEF d
<1> QED
  BY <1>7, <1>8, <1>9

\* A failure of an open machine: the error it keeps, and its cleanup.
LEMMA FailInv ==
  ASSUME NEW t, Ending(t), t.error = "none", NEW e \in Error \ {"none"}
  PROVE  LET u == Fail(t, e)
         IN  Inv(u) /\ u.sub = "none" /\ (u.life = "ready" => u.needsReinit)
<1> DEFINE u == [t EXCEPT !.error = e]
           c == [u EXCEPT !.open = "SLEEP"]
<1>1. Fail(t, e) = IF t.powered THEN c ELSE OpenDone(u)
  BY DEF Fail, Ending, Sessions
<1>2. u \in Sessions
  BY DEF Ending, Sessions
<1>3. /\ u.life = t.life /\ u.open = t.open /\ u.error = e /\ u.sub = "none"
      /\ u.joined = "none" /\ u.at = "none" /\ u.n = 0 /\ u.arm = "none"
      /\ u.base = NoBase /\ u.esd = NoEsd /\ u.gen = t.gen /\ u.hw = t.hw
      /\ u.retained = t.retained
  BY DEF Ending, Sessions
<1> HIDE DEF u
<1>4. Ending(u)
  BY <1>2, <1>3 DEF Ending, Bringing, Whole
<1>5. CASE t.powered
  <2>1. c \in Sessions
    BY <1>2 DEF Sessions, OpenState
  <2>2. /\ c.life = t.life /\ c.open = "SLEEP" /\ c.error = e /\ c.sub = "none"
        /\ c.joined = "none" /\ c.at = "none" /\ c.n = 0 /\ c.arm = "none"
        /\ c.base = NoBase /\ c.esd = NoEsd /\ c.gen = t.gen /\ c.hw = t.hw
        /\ c.retained = t.retained
    BY <1>2, <1>3 DEF Sessions
  <2> HIDE DEF c
  <2>3. c.life \in {"opening", "reinit"}
    BY <2>2 DEF Ending, Bringing
  <2>4. Children(c) /\ Machines(c)
    BY <2>2, <2>3 DEF Children, Machines, Bringing, Delegating
  <2>5. Ordered(c)
    BY <2>2, <2>3 DEF Ordered, Unclaimed, Confirmed, Handshaken
  <2>6. Published(c)
    BY <2>2, <2>3 DEF Ending, Published, Whole, Finishing, Early
  <2> QED
    BY <1>1, <1>5, <2>1, <2>2, <2>3, <2>4, <2>5, <2>6 DEF Inv
<1>6. CASE ~t.powered
  <2>1. Inv(OpenDone(u)) /\ OpenDone(u).sub = "none"
        /\ (OpenDone(u).life = "ready" => OpenDone(u).needsReinit)
    BY <1>3, <1>4, OpenDoneInv
  <2> QED
    BY <1>1, <1>6, <2>1
<1> QED
  BY <1>5, <1>6

\* ---------------------------------------------------------------------------
\* The children of an open machine.

\* What a step of a machine gives: a session of the invariant, ready only with
\* what a ready session has, of the same life where a child is still to be joined.
Sequel(t, u) ==
  Inv(u) /\ Granted(t, u) /\ (u.sub = "joined" => u.life = t.life)

LEMMA SameLife ==
  ASSUME NEW t, NEW u, Inv(u), u.life = t.life
  PROVE  Sequel(t, u)
  BY DEF Sequel, Granted

\* The fields of a session but some.
Same(t, u, fields) == \A f \in DOMAIN t \ fields : u[f] = t[f]

\* A machine that goes on to its next command.
LEMMA Moved ==
  ASSUME NEW t, Inv(t), NEW u \in Sessions, Same(t, u, {"at", "n"}), Children(u),
         u.sub = "gtls" /\ u.at \in {"VERIFY", "COMPLETION"} => u.sensorKey = u.psk,
         u.sub = "base" /\ u.at \in Sampled => u.base.first # None,
         u.sub = "base" /\ u.at \in Cleaning /\ ~u.base.forced => u.base.error # "none"
  PROVE  Inv(u) /\ u.life = t.life /\ u.sub = t.sub
<1>1. t \in Sessions
  BY DEF Inv
<1>2. /\ u.life = t.life /\ u.open = t.open /\ u.error = t.error /\ u.sub = t.sub
      /\ u.joined = t.joined /\ u.arm = t.arm /\ u.base = t.base /\ u.esd = t.esd
      /\ u.claimed = t.claimed /\ u.verifyPending = t.verifyPending
      /\ u.sensorKey = t.sensorKey /\ u.psk = t.psk /\ u.established = t.established
  BY <1>1 DEF Same, Sessions
<1>3. /\ u.gen = t.gen /\ u.hw = t.hw /\ u.retained = t.retained /\ u.fdt = t.fdt
      /\ u.baseValid = t.baseValid /\ u.recoveryPending = t.recoveryPending
      /\ u.needsReinit = t.needsReinit
  BY <1>1 DEF Same, Sessions
<1>4. Machines(u)
  BY <1>2 DEF Inv, Machines, Bringing
<1>5. Ordered(u)
  BY <1>2 DEF Inv, Ordered
<1>6. Published(u)
  BY <1>2, <1>3 DEF Inv, Published, Whole, Finishing, Fit, Sound
<1> QED
  BY <1>2, <1>4, <1>5, <1>6 DEF Inv

\* A child that ends, with an error or with what its owner asked for.
LEMMA JoinedInv ==
  ASSUME NEW t \in Sessions, t.sub \in {"probe", "chip", "gtls"}, t.base = NoBase,
         t.esd = NoEsd, t.arm = "none", t.open # "CAPTURE_REF",
         Machines(t), Ordered(t), Published(t), NEW e \in Error,
         e = "none" /\ (t.open = "GTLS" \/ t.life = "warm")
           => t.established /\ t.sensorKey = t.psk
  PROVE  LET u == Joined(t, e)
         IN  Inv(u) /\ u.life = t.life /\ u.sub = "joined" /\ u.joined = e
<1> DEFINE u == [t EXCEPT !.sub = "joined", !.at = "none", !.n = 0, !.joined = e]
<1>1. Joined(t, e) = u
  BY DEF Joined
<1>2. u \in Sessions
  BY ZenonT(40) DEF Sessions, Child, ChildState
<1>3. /\ u.life = t.life /\ u.open = t.open /\ u.error = t.error /\ u.sub = "joined"
      /\ u.joined = e /\ u.at = "none" /\ u.n = 0 /\ u.arm = "none" /\ u.base = NoBase
      /\ u.esd = NoEsd /\ u.claimed = t.claimed /\ u.verifyPending = t.verifyPending
      /\ u.sensorKey = t.sensorKey /\ u.psk = t.psk /\ u.established = t.established
  BY DEF Sessions
<1>4. /\ u.gen = t.gen /\ u.hw = t.hw /\ u.retained = t.retained /\ u.fdt = t.fdt
      /\ u.baseValid = t.baseValid /\ u.recoveryPending = t.recoveryPending
      /\ u.needsReinit = t.needsReinit
  BY DEF Sessions
<1> HIDE DEF u
<1>5. Children(u)
  BY <1>3 DEF Children
<1>6. Machines(u)
  BY <1>3 DEF Machines, Bringing
<1>7. Ordered(u)
  BY <1>3 DEF Ordered
<1>8. Published(u)
  BY <1>3, <1>4 DEF Published, Whole, Finishing, Fit, Sound
<1> QED
  BY <1>1, <1>2, <1>3, <1>5, <1>6, <1>7, <1>8 DEF Inv

LEMMA ProbeErrorIs == \A t : ProbeError(t) \in Error \ {"none"}
  BY DEF ProbeError, Error

\* A child of an initialization starts, or ends at once at a stop.
LEMMA StartChildInv ==
  ASSUME NEW t, Ending(t), t.error = "none", t.claimed, t.gen = NoGeneration,
         NEW state, NEW child, NEW first,
         \/ state = "PING" /\ child = "probe" /\ first = "PING"
         \/ state = "RESET" /\ child = "chip" /\ first = "INITIAL_RESET"
  PROVE  LET u == StartChild(t, state, child, first)
         IN  /\ Inv(u) /\ u.life = t.life
             /\ u.sub = "joined" => u.joined # "none"
<1> DEFINE u == [t EXCEPT !.open = state, !.sub = child, !.at = first, !.n = 0]
<1>1. StartChild(t, state, child, first) = IF Probed(t) THEN u ELSE Joined(u, ProbeError(t))
  BY DEF StartChild
<1>a. state \in OpenState /\ child \in Child /\ first \in ChildState
  BY DEF OpenState, Child, ChildState
<1>2. u \in Sessions
  BY ZenonT(40), <1>a DEF Ending, Sessions
<1>3. /\ u.life = t.life /\ u.open = state /\ u.error = "none" /\ u.sub = child
      /\ u.joined = "none" /\ u.at = first /\ u.n = 0 /\ u.arm = "none"
      /\ u.base = NoBase /\ u.esd = NoEsd /\ u.claimed /\ u.gen = NoGeneration
      /\ u.hw = t.hw /\ u.retained = t.retained
  BY DEF Ending, Sessions
<1> HIDE DEF u
<1>4. u.life \in {"opening", "reinit"}
  BY <1>3 DEF Ending, Bringing
<1>5. Children(u)
  BY <1>3, OpenAssumption DEF Children, ProbeState, ChipState
<1>6. Machines(u)
  BY <1>3, <1>4 DEF Machines, Bringing, Delegating
<1>7. Ordered(u)
  BY <1>3, <1>4 DEF Ordered, Unclaimed, Confirmed, Handshaken
<1>8. Published(u)
  BY <1>3, <1>4 DEF Ending, Published, Whole, Finishing
<1>9. CASE Probed(t)
  BY <1>1, <1>2, <1>3, <1>5, <1>6, <1>7, <1>8, <1>9 DEF Inv
<1>10. CASE ~Probed(t)
  BY <1>1, <1>2, <1>3, <1>4, <1>6, <1>7, <1>8, <1>10, JoinedInv, ProbeErrorIs
<1> QED
  BY <1>9, <1>10

\* What a change of the command, or of the count, leaves as it was.
Other(t, u) ==
  /\ u.life = t.life /\ u.open = t.open /\ u.sub = t.sub /\ u.base = t.base
  /\ u.esd = t.esd /\ u.arm = t.arm /\ u.sensorKey = t.sensorKey /\ u.psk = t.psk

LEMMA Waits ==
  ASSUME NEW t \in Sessions, NEW a \in ChildState
  PROVE  LET u == ChildWait(t, a)
         IN  u \in Sessions /\ Same(t, u, {"at", "n"}) /\ u.at = a /\ u.n = t.n
             /\ Other(t, u)
<1> DEFINE u == [t EXCEPT !.at = a]
<1>1. u \in Sessions /\ Same(t, u, {"at", "n"}) /\ u.at = a /\ u.n = t.n
  BY DEF Sessions, Same
<1>2. Other(t, u)
  BY DEF Sessions, Other
<1> QED
  BY <1>1, <1>2 DEF ChildWait

LEMMA Counts ==
  ASSUME NEW t \in Sessions, NEW a \in ChildState
  PROVE  LET u == ChildWait([t EXCEPT !.n = @ + 1], a)
         IN  u \in Sessions /\ Same(t, u, {"at", "n"}) /\ u.at = a /\ u.n = t.n + 1
             /\ Other(t, u)
<1> DEFINE v == [t EXCEPT !.n = @ + 1]
           u == [v EXCEPT !.at = a]
<1>1. v \in Sessions /\ Same(t, v, {"n"}) /\ v.n = t.n + 1
  BY DEF Sessions, Same
<1> HIDE DEF v
<1>2. u \in Sessions /\ Same(v, u, {"at"}) /\ u.at = a
  BY <1>1 DEF Sessions, Same
<1> HIDE DEF u
<1>3. Same(t, u, {"at", "n"}) /\ u.n = t.n + 1
  BY <1>1, <1>2 DEF Sessions, Same
<1>4. Other(t, u)
  BY <1>2, <1>3 DEF Sessions, Same, Other
<1> QED
  BY <1>2, <1>3, <1>4 DEF ChildWait, u, v

\* The probe of the firmware: a step of its machine.
LEMMA ProbeInv ==
  ASSUME NEW t, Inv(t), t.sub = "probe",
         NEW o \in {"ok", "exhausted", "fault", "cancelled", "gone"}
  PROVE  LET u == ProbeResult(t, o) IN Inv(u) /\ u.life = t.life
<1>1. /\ t \in Sessions /\ t.open = "PING" /\ t.at \in ProbeState /\ t.n <= ProbeFailures
      /\ (t.at # "AFTER_DELAY" => t.n < ProbeFailures)
      /\ t.base = NoBase /\ t.esd = NoEsd /\ t.arm = "none"
      /\ Machines(t) /\ Ordered(t) /\ Published(t)
  BY DEF Inv, Children
<1>2. t.life # "warm"
  BY <1>1 DEF Machines
<1>3. ASSUME NEW e \in Error
      PROVE  Inv(Joined(t, e)) /\ Joined(t, e).life = t.life
  BY <1>1, <1>2, <1>3, JoinedInv
<1>4. ASSUME NEW a \in {"PING", "FIRMWARE"}, t.n < ProbeFailures
      PROVE  Inv(ChildWait(t, a)) /\ ChildWait(t, a).life = t.life
  <2> DEFINE u == ChildWait(t, a)
  <2>1. u \in Sessions /\ Same(t, u, {"at", "n"}) /\ u.at = a /\ u.n = t.n
        /\ Other(t, u)
    BY <1>1, Waits DEF ChildState
  <2> HIDE DEF u
  <2>2. Children(u)
    BY <1>1, <1>4, <2>1, OpenAssumption DEF Children, ProbeState, Sessions, Other
  <2> QED
    BY <1>1, <2>1, <2>2, Moved DEF u, Other
<1>5. ASSUME t.n < ProbeFailures
      PROVE  LET u == ChildWait([t EXCEPT !.n = @ + 1], "AFTER_DELAY")
             IN  Inv(u) /\ u.life = t.life
  <2> DEFINE u == ChildWait([t EXCEPT !.n = @ + 1], "AFTER_DELAY")
  <2>1. u \in Sessions /\ Same(t, u, {"at", "n"}) /\ u.at = "AFTER_DELAY" /\ u.n = t.n + 1
        /\ Other(t, u)
    BY <1>1, Counts DEF ChildState
  <2> HIDE DEF u
  <2>2. Children(u)
    BY <1>1, <1>5, <2>1, OpenAssumption DEF Children, ProbeState, Sessions, Other
  <2> QED
    BY <1>1, <2>1, <2>2, Moved DEF u, Other
<1> DEFINE u == ProbeResult(t, o)
<1>6. CASE ~Probed(t)
  <2>1. u = Joined(t, ProbeError(t))
    BY <1>6 DEF ProbeResult
  <2> QED
    BY <1>3, <2>1, ProbeErrorIs
<1>7. CASE Probed(t) /\ t.at = "AFTER_DELAY"
  <2>1. u = IF t.n = ProbeFailures THEN Joined(t, "none") ELSE ChildWait(t, "PING")
    BY <1>7, Zenon DEF ProbeResult
  <2>2. t.n = ProbeFailures \/ t.n < ProbeFailures
    BY <1>1, OpenAssumption DEF Sessions
  <2> QED
    BY <1>3, <1>4, <2>1, <2>2, OpenAssumption DEF Error
<1>8. CASE Probed(t) /\ t.at # "AFTER_DELAY" /\ o \notin {"ok", "exhausted"}
  <2>1. u = Joined(t, o) /\ o \in Error
    BY <1>8 DEF ProbeResult, Error
  <2> QED
    BY <1>3, <2>1
<1>9. CASE Probed(t) /\ t.at = "PING" /\ o \in {"ok", "exhausted"}
  <2>1. u = ChildWait(t, "FIRMWARE")
    BY <1>9 DEF ProbeResult
  <2> QED
    BY <1>1, <1>4, <1>9, <2>1
<1>10. CASE Probed(t) /\ t.at = "FIRMWARE" /\ o = "ok"
  <2>1. u = Joined(t, "none")
    BY <1>10 DEF ProbeResult
  <2> QED
    BY <1>3, <2>1 DEF Error
<1>11. CASE Probed(t) /\ t.at = "FIRMWARE" /\ o = "exhausted"
  <2>1. u = ChildWait([t EXCEPT !.n = @ + 1], "AFTER_DELAY")
    BY <1>11 DEF ProbeResult
  <2> QED
    BY <1>1, <1>5, <1>11, <2>1
<1> QED
  BY <1>1, <1>6, <1>7, <1>8, <1>9, <1>10, <1>11 DEF ProbeState

\* The identification of the chip.
LEMMA ChipInv ==
  ASSUME NEW t, Inv(t), t.sub = "chip",
         NEW o \in {"ok", "rejected", "exhausted", "fault", "cancelled", "gone"}
  PROVE  LET u == ChipResult(t, o) IN Inv(u) /\ u.life = t.life
<1>1. /\ t \in Sessions /\ t.open = "RESET" /\ t.at \in ChipState /\ t.n <= ChipFailures
      /\ (t.at \in {"INITIAL_RESET", "READ"} => t.n < ChipFailures)
      /\ t.base = NoBase /\ t.esd = NoEsd /\ t.arm = "none"
      /\ Machines(t) /\ Ordered(t) /\ Published(t)
  BY DEF Inv, Children
<1>2. t.life # "warm"
  BY <1>1 DEF Machines
<1>3. ASSUME NEW e \in Error
      PROVE  Inv(Joined(t, e)) /\ Joined(t, e).life = t.life
  BY <1>1, <1>2, <1>3, JoinedInv
<1>4. ASSUME NEW a \in {"READ", "AFTER_DELAY"}, a = "READ" => t.n < ChipFailures
      PROVE  Inv(ChildWait(t, a)) /\ ChildWait(t, a).life = t.life
  <2> DEFINE u == ChildWait(t, a)
  <2>1. u \in Sessions /\ Same(t, u, {"at", "n"}) /\ u.at = a /\ u.n = t.n
        /\ Other(t, u)
    BY <1>1, Waits DEF ChildState
  <2> HIDE DEF u
  <2>2. Children(u)
    BY <1>1, <1>4, <2>1, OpenAssumption DEF Children, ChipState, Sessions, Other
  <2> QED
    BY <1>1, <2>1, <2>2, Moved DEF u, Other
<1>5. ASSUME t.n < ChipFailures
      PROVE  LET u == ChildWait([t EXCEPT !.n = @ + 1], "RECOVERY_RESET")
             IN  Inv(u) /\ u.life = t.life
  <2> DEFINE u == ChildWait([t EXCEPT !.n = @ + 1], "RECOVERY_RESET")
  <2>1. u \in Sessions /\ Same(t, u, {"at", "n"}) /\ u.at = "RECOVERY_RESET"
        /\ u.n = t.n + 1 /\ Other(t, u)
    BY <1>1, Counts DEF ChildState
  <2> HIDE DEF u
  <2>2. Children(u)
    BY <1>1, <1>5, <2>1, OpenAssumption DEF Children, ChipState, Sessions, Other
  <2> QED
    BY <1>1, <2>1, <2>2, Moved DEF u, Other
<1> DEFINE u == ChipResult(t, o)
<1>6. CASE ~Probed(t)
  <2>1. u = Joined(t, ProbeError(t))
    BY <1>6 DEF ChipResult
  <2> QED
    BY <1>3, <2>1, ProbeErrorIs
<1>7. CASE Probed(t) /\ t.at = "AFTER_DELAY"
  <2>1. u = IF t.n = ChipFailures THEN Joined(t, "fault") ELSE ChildWait(t, "READ")
    BY <1>7, Zenon DEF ChipResult
  <2>2. t.n = ChipFailures \/ t.n < ChipFailures
    BY <1>1, OpenAssumption DEF Sessions
  <2> QED
    BY <1>3, <1>4, <2>1, <2>2, OpenAssumption DEF Error
<1>8. CASE Probed(t) /\ t.at # "AFTER_DELAY" /\ o \notin {"ok", "rejected", "exhausted"}
  <2>1. u = Joined(t, o) /\ o \in Error
    BY <1>8 DEF ChipResult, Error
  <2> QED
    BY <1>3, <2>1
<1>9. CASE Probed(t) /\ t.at = "INITIAL_RESET" /\ o \in {"ok", "rejected", "exhausted"}
  <2>1. u = ChildWait(t, "READ")
    BY <1>9 DEF ChipResult
  <2> QED
    BY <1>1, <1>4, <1>9, <2>1
<1>10. CASE Probed(t) /\ t.at = "RECOVERY_RESET" /\ o \in {"ok", "rejected", "exhausted"}
  <2>1. u = ChildWait(t, "AFTER_DELAY")
    BY <1>10 DEF ChipResult
  <2> QED
    BY <1>4, <2>1
<1>11. CASE Probed(t) /\ t.at = "READ" /\ o = "ok"
  <2>1. u = Joined(t, "none")
    BY <1>11 DEF ChipResult
  <2> QED
    BY <1>3, <2>1 DEF Error
<1>12. CASE Probed(t) /\ t.at = "READ" /\ o \in {"rejected", "exhausted"}
  <2>1. u = ChildWait([t EXCEPT !.n = @ + 1], "RECOVERY_RESET")
    BY <1>12 DEF ChipResult
  <2> QED
    BY <1>1, <1>5, <1>12, <2>1
<1> QED
  BY <1>1, <1>6, <1>7, <1>8, <1>9, <1>10, <1>11, <1>12 DEF ChipState

\* ---------------------------------------------------------------------------
\* The handshake, of an open machine, of a resume and of a restart.

Shaking(t) ==
  /\ t \in Sessions /\ t.sub = "gtls" /\ t.base = NoBase /\ t.esd = NoEsd
  /\ t.arm = "none" /\ (t.open = "GTLS" \/ t.life \in {"warm", "ready"})
  /\ Machines(t) /\ Ordered(t) /\ Published(t)

LEMMA ShakingIs ==
  ASSUME NEW t, Shaking(t)
  PROVE  /\ t.life \in {"warm", "ready"} => t.open = "none"
         /\ t.open # "CAPTURE_REF" /\ t.open \notin Handshaken
  BY DEF Shaking, Machines, Bringing, Handshaken, Confirmed

LEMMA GtlsFailsInv ==
  ASSUME NEW t, Shaking(t), NEW e \in Error \ {"none"}
  PROVE  LET u == GtlsFails(t, e)
         IN  Inv(u) /\ u.life = t.life /\ u.sub = "joined" /\ u.joined # "none"
<1> DEFINE failed == t.gtlsFailed \/ ~Restart(t)
           v == [t EXCEPT !.gtlsFailed = failed]
<1>1. GtlsFails(t, e) = Joined(v, e) /\ t \in Sessions /\ failed \in BOOLEAN
  BY DEF GtlsFails, Shaking, Sessions
<1> HIDE DEF failed
<1>2. v \in Sessions
  BY <1>1 DEF Sessions
<1>3. Same(t, v, {"gtlsFailed"})
  BY <1>1 DEF Same, Sessions
<1> HIDE DEF v
<1>4. /\ v.life = t.life /\ v.open = t.open /\ v.error = t.error /\ v.sub = t.sub
      /\ v.joined = t.joined /\ v.at = t.at /\ v.arm = t.arm /\ v.base = t.base
      /\ v.esd = t.esd /\ v.claimed = t.claimed /\ v.verifyPending = t.verifyPending
      /\ v.sensorKey = t.sensorKey /\ v.psk = t.psk /\ v.established = t.established
  BY <1>1, <1>3 DEF Same, Sessions
<1>5. /\ v.gen = t.gen /\ v.hw = t.hw /\ v.retained = t.retained /\ v.fdt = t.fdt
      /\ v.baseValid = t.baseValid /\ v.recoveryPending = t.recoveryPending
      /\ v.needsReinit = t.needsReinit
  BY <1>1, <1>3 DEF Same, Sessions
<1>6. Machines(v) /\ Ordered(v)
  BY <1>4 DEF Shaking, Machines, Bringing, Ordered
<1>7. Published(v)
  BY <1>4, <1>5 DEF Shaking, Published, Whole, Finishing, Fit, Sound
<1> QED
  BY <1>1, <1>2, <1>4, <1>6, <1>7, ShakingIs, JoinedInv DEF Shaking

\* An attempt that begins leaves no session established before it.
LEMMA GtlsHelloInv ==
  ASSUME NEW t, Shaking(t), t.n < 2 * GtlsGroup
  PROVE  LET u == GtlsHello(t)
         IN  Inv(u) /\ u.life = t.life /\ (u.sub = "joined" => u.joined # "none")
             /\ u.sub # "none"
<1>1. CASE t.cancelled
  BY <1>1, ShakingIs, JoinedInv DEF GtlsHello, Shaking, Error
<1>2. CASE ~t.cancelled
  <2> DEFINE k == t.n + 1
             u == [t EXCEPT !.at = "HELLO", !.n = k, !.established = FALSE]
  <2>1. GtlsHello(t) = u
    BY <1>2 DEF GtlsHello, Shaking, Sessions
  <2>2. k \in Nat /\ k <= 2 * GtlsGroup
    BY OpenAssumption DEF Shaking, Sessions
  <2> HIDE DEF k
  <2>3. u \in Sessions
    BY ZenonT(40), <2>2 DEF Shaking, Sessions, ChildState
  <2>4. Same(t, u, {"at", "n", "established"}) /\ u.at = "HELLO" /\ u.n = k
    BY DEF Shaking, Same, Sessions
  <2> HIDE DEF u
  <2>5. /\ u.life = t.life /\ u.open = t.open /\ u.error = t.error /\ u.sub = "gtls"
        /\ u.joined = t.joined /\ u.arm = "none" /\ u.base = NoBase
        /\ u.esd = NoEsd /\ u.claimed = t.claimed /\ u.verifyPending = t.verifyPending
        /\ u.sensorKey = t.sensorKey /\ u.psk = t.psk
    BY <2>4 DEF Shaking, Same, Sessions
  <2>6. /\ u.gen = t.gen /\ u.hw = t.hw /\ u.retained = t.retained /\ u.fdt = t.fdt
        /\ u.baseValid = t.baseValid /\ u.recoveryPending = t.recoveryPending
        /\ u.needsReinit = t.needsReinit
    BY <2>4 DEF Shaking, Same, Sessions
  <2>7. Children(u)
    BY <2>2, <2>4, <2>5 DEF Shaking, Children, GtlsState
  <2>8. Machines(u)
    BY <2>5 DEF Shaking, Machines, Bringing
  <2>9. Ordered(u)
    BY <2>4, <2>5, ShakingIs DEF Shaking, Ordered
  <2>10. Published(u)
    BY <2>5, <2>6 DEF Shaking, Published, Whole, Finishing, Fit, Sound
  <2> QED
    BY <2>1, <2>3, <2>5, <2>7, <2>8, <2>9, <2>10 DEF Inv
<1> QED
  BY <1>1, <1>2 DEF Shaking, Sessions

LEMMA StartGtlsInv ==
  ASSUME NEW t \in Sessions, t.base = NoBase, t.esd = NoEsd, t.arm = "none",
         t.error = "none", t.joined = "none", t.at = "none",
         \/ Bringing(t) /\ t.open = "GTLS"
         \/ t.life \in {"warm", "ready"} /\ t.open = "none",
         Ordered(t), Published(t), t.sub = "none"
  PROVE  LET u == StartGtls(t)
         IN  Inv(u) /\ u.life = t.life /\ (u.sub = "joined" => u.joined # "none")
             /\ u.sub # "none"
<1> DEFINE v == [t EXCEPT !.sub = "gtls", !.n = 0]
<1>1. StartGtls(t) = GtlsHello(v)
  BY DEF StartGtls
<1>2. v \in Sessions
  BY DEF Sessions, Child
<1>3. Same(t, v, {"sub", "n"}) /\ v.sub = "gtls" /\ v.n = 0
  BY DEF Same, Sessions
<1> HIDE DEF v
<1>4. /\ v.life = t.life /\ v.open = t.open /\ v.error = "none"
      /\ v.joined = "none" /\ v.at = "none" /\ v.arm = "none" /\ v.base = NoBase
      /\ v.esd = NoEsd /\ v.claimed = t.claimed /\ v.verifyPending = t.verifyPending
      /\ v.sensorKey = t.sensorKey /\ v.psk = t.psk /\ v.established = t.established
  BY <1>3 DEF Same, Sessions
<1>5. /\ v.gen = t.gen /\ v.hw = t.hw /\ v.retained = t.retained /\ v.fdt = t.fdt
      /\ v.baseValid = t.baseValid /\ v.recoveryPending = t.recoveryPending
      /\ v.needsReinit = t.needsReinit
  BY <1>3 DEF Same, Sessions
<1>6. Machines(v)
  BY <1>3, <1>4 DEF Machines, Bringing, Delegating
<1>7. Ordered(v)
  BY <1>3, <1>4 DEF Ordered
<1>8. Published(v)
  BY <1>3, <1>4, <1>5 DEF Published, Whole, Finishing, Fit, Sound
<1>9. Shaking(v)
  BY <1>2, <1>3, <1>4, <1>6, <1>7, <1>8 DEF Shaking
<1>10. v.n < 2 * GtlsGroup
  BY <1>3, OpenAssumption
<1> QED
  BY <1>1, <1>4, <1>9, <1>10, GtlsHelloInv

\* A step of the handshake.
LEMMA GtlsInv ==
  ASSUME NEW t, Inv(t), t.sub = "gtls",
         NEW o \in {"ok", "exhausted", "fault", "cancelled", "gone"}
  PROVE  LET u == GtlsResult(t, o) IN Inv(u) /\ u.life = t.life
<1>1. Shaking(t) /\ t \in Sessions /\ t.at \in GtlsState /\ t.n <= 2 * GtlsGroup
  BY DEF Inv, Children, Shaking
<1>2. ASSUME NEW e \in Error \ {"none"}
      PROVE  /\ Inv(Joined(t, e)) /\ Joined(t, e).life = t.life
             /\ Inv(GtlsFails(t, e)) /\ GtlsFails(t, e).life = t.life
  BY <1>1, GtlsFailsInv, JoinedInv, ShakingIs DEF Shaking
<1>3. ASSUME NEW a \in GtlsState, a \in {"VERIFY", "COMPLETION"} => t.sensorKey = t.psk
      PROVE  Inv(ChildWait(t, a)) /\ ChildWait(t, a).life = t.life
  <2> DEFINE u == ChildWait(t, a)
  <2>1. u \in Sessions /\ Same(t, u, {"at", "n"}) /\ u.at = a /\ u.n = t.n
        /\ Other(t, u)
    BY <1>1, Waits DEF ChildState, GtlsState
  <2> HIDE DEF u
  <2>2. Children(u)
    BY <1>1, <2>1 DEF Shaking, Children, Other
  <2>3. u.sub = "gtls" /\ (u.at \in {"VERIFY", "COMPLETION"} => u.sensorKey = u.psk)
    BY <1>3, <2>1 DEF Other
  <2> QED
    BY <2>1, <2>2, <2>3, Moved DEF u
<1> DEFINE u == GtlsResult(t, o)
<1>4. CASE t.at = "RETRY" /\ t.n < GtlsAttempts(t)
  <2>1. u = GtlsHello(t)
    BY <1>4 DEF GtlsResult
  <2>2. t.n < 2 * GtlsGroup
    BY <1>1, <1>4, OpenAssumption DEF GtlsAttempts, Sessions
  <2> QED
    BY <1>1, <2>1, <2>2, GtlsHelloInv
<1>5. CASE t.at = "RETRY" /\ ~(t.n < GtlsAttempts(t))
  <2>1. u = GtlsExhausted(t)
    BY <1>5 DEF GtlsResult
  <2>2. CASE t.cancelled
    BY <1>2, <2>1, <2>2 DEF GtlsExhausted, Error
  <2>3. CASE ~t.cancelled /\ Restart(t)
    <3>1. u = Joined(t, "none") /\ t.life = "ready"
      BY <2>1, <2>3 DEF GtlsExhausted, Restart
    <3> QED
      BY <1>1, <3>1, JoinedInv, ShakingIs DEF Shaking, Error
  <2>4. CASE ~t.cancelled /\ ~Restart(t)
    BY <1>2, <2>1, <2>4 DEF GtlsExhausted, Error
  <2> QED
    BY <2>2, <2>3, <2>4
<1>6. CASE t.at # "RETRY" /\ o \in {"cancelled", "gone"}
  <2>1. u = GtlsFails(t, o)
    BY <1>6 DEF GtlsResult
  <2> QED
    BY <1>2, <1>6, <2>1 DEF Error
<1>7. CASE t.at # "RETRY" /\ o \in {"exhausted", "fault"}
  <2>1. u = ChildWait(t, "RETRY")
    BY <1>7 DEF GtlsResult
  <2> QED
    BY <1>3, <2>1 DEF GtlsState
<1>8. CASE t.at # "RETRY" /\ o = "ok" /\ t.cancelled
  <2>1. u = GtlsFails(t, "cancelled")
    BY <1>8 DEF GtlsResult
  <2> QED
    BY <1>2, <2>1 DEF Error
<1>9. CASE t.at # "RETRY" /\ o = "ok" /\ ~t.cancelled
  <2>1. u = GtlsNext(t)
    BY <1>9 DEF GtlsResult
  <2>2. CASE t.at = "HELLO"
    <3>1. u = ChildWait(t, "IDENTITY")
      BY <2>1, <2>2 DEF GtlsNext
    <3> QED
      BY <1>3, <3>1 DEF GtlsState
  <2>3. CASE t.at = "IDENTITY" /\ t.sensorKey = t.psk
    <3>1. u = ChildWait(t, "VERIFY")
      BY <2>1, <2>3 DEF GtlsNext
    <3> QED
      BY <1>3, <2>3, <3>1 DEF GtlsState
  <2>4. CASE t.at = "IDENTITY" /\ t.sensorKey # t.psk
    <3>1. u = ChildWait(t, "RETRY")
      BY <2>1, <2>4 DEF GtlsNext
    <3> QED
      BY <1>3, <3>1 DEF GtlsState
  <2>5. CASE t.at = "VERIFY"
    <3>1. u = ChildWait(t, "COMPLETION")
      BY <2>1, <2>5 DEF GtlsNext
    <3>2. t.sensorKey = t.psk
      BY <1>1, <2>5 DEF Shaking, Ordered
    <3> QED
      BY <1>3, <3>1, <3>2 DEF GtlsState
  <2>6. CASE t.at = "COMPLETION"
    <3> DEFINE v == [t EXCEPT !.established = TRUE]
    <3>1. u = Joined(v, "none") /\ t.sensorKey = t.psk
      BY <1>1, <2>1, <2>6 DEF GtlsNext, Shaking, Ordered
    <3>2. v \in Sessions /\ Same(t, v, {"established"}) /\ v.established
      BY <1>1 DEF Sessions, Same
    <3> HIDE DEF v
    <3>3. /\ v.life = t.life /\ v.open = t.open /\ v.error = t.error /\ v.sub = t.sub
          /\ v.joined = t.joined /\ v.at = t.at /\ v.arm = t.arm /\ v.base = t.base
          /\ v.esd = t.esd /\ v.claimed = t.claimed /\ v.verifyPending = t.verifyPending
          /\ v.sensorKey = t.sensorKey /\ v.psk = t.psk
      BY <1>1, <3>2 DEF Same, Sessions
    <3>4. /\ v.gen = t.gen /\ v.hw = t.hw /\ v.retained = t.retained /\ v.fdt = t.fdt
          /\ v.baseValid = t.baseValid /\ v.recoveryPending = t.recoveryPending
          /\ v.needsReinit = t.needsReinit
      BY <1>1, <3>2 DEF Same, Sessions
    <3>5. Machines(v)
      BY <1>1, <3>3 DEF Shaking, Machines, Bringing
    <3>6. Ordered(v)
      BY <1>1, <3>2, <3>3 DEF Shaking, Ordered
    <3>7. Published(v)
      BY <1>1, <3>3, <3>4 DEF Shaking, Published, Whole, Finishing, Fit, Sound
    <3> QED
      BY <1>1, <3>1, <3>2, <3>3, <3>5, <3>6, <3>7, ShakingIs, JoinedInv DEF Shaking, Error
  <2> QED
    BY <1>1, <1>9, <2>2, <2>3, <2>4, <2>5, <2>6 DEF GtlsState
<1> QED
  BY <1>4, <1>5, <1>6, <1>7, <1>8, <1>9

\* ---------------------------------------------------------------------------
\* The acquisition of a reference.

\* An acquisition in the middle of a step: its next command is not chosen yet.
Acquiring(t) ==
  /\ t \in Sessions /\ t.sub = "base" /\ t.n = 0 /\ t.esd = NoEsd /\ t.arm = "none"
  /\ IF t.base.forced THEN t.life = "ready" ELSE t.open = "CAPTURE_REF"
  /\ Machines(t) /\ Ordered(t) /\ Whole(t)
  /\ t.open = "CAPTURE_REF" => Sound(t)
  /\ Finishing(t) => Fit(t)

Cold(t) == ~t.base.forced

\* What an acquisition writes.
Written == {"base", "baseValid", "fdt", "retained", "gen", "hw", "recoveryPending"}

LEMMA AcquiringIs ==
  ASSUME NEW t, Inv(t), t.sub = "base"
  PROVE  /\ Acquiring(t) /\ t.at \in Unsampled \cup Sampled
         /\ Cold(t) => t.gen = NoGeneration
         /\ t.at \in Sampled => t.base.first # None
  BY DEF Inv, Children, Published, Acquiring, Cold

LEMMA AcquiringOn ==
  ASSUME NEW t, Acquiring(t), NEW u \in Sessions, Same(t, u, Written),
         u.base.forced = t.base.forced, Whole(u),
         u.open = "CAPTURE_REF" => Sound(u), Finishing(u) => Fit(u)
  PROVE  Acquiring(u) /\ u.life = t.life /\ u.open = t.open
<1>1. /\ u.life = t.life /\ u.open = t.open /\ u.error = t.error /\ u.sub = t.sub
      /\ u.joined = t.joined /\ u.at = t.at /\ u.n = t.n /\ u.arm = t.arm
      /\ u.esd = t.esd /\ u.claimed = t.claimed /\ u.verifyPending = t.verifyPending
      /\ u.sensorKey = t.sensorKey /\ u.psk = t.psk /\ u.established = t.established
  BY DEF Acquiring, Same, Sessions, Written
<1>2. Machines(u)
  BY <1>1 DEF Acquiring, Machines, Bringing
<1>3. Ordered(u)
  BY <1>1 DEF Acquiring, Ordered
<1> QED
  BY <1>1, <1>2, <1>3 DEF Acquiring

LEMMA BaseJoinedInv ==
  ASSUME NEW t, Acquiring(t), NEW e \in Error, Cold(t) /\ e = "none" => Fit(t)
  PROVE  LET u == BaseJoined(t, e) IN Inv(u) /\ u.life = t.life
<1> DEFINE b == t.needsReinit \/ (t.base.forced /\ e \notin {"none", "cancelled"})
           u == [t EXCEPT !.sub = "joined", !.at = "none", !.joined = e, !.base = NoBase,
                          !.needsReinit = b]
<1>1. BaseJoined(t, e) = u
  BY DEF BaseJoined, Acquiring, Sessions
<1>2. b \in BOOLEAN /\ (~b => ~t.needsReinit)
  BY DEF Acquiring, Sessions, Bases
<1> HIDE DEF b
<1>3. NoBase \in Bases
  BY DEF NoBase, Bases, Token, None, Error
<1>4. u \in Sessions
  BY ZenonT(40), <1>2, <1>3 DEF Acquiring, Sessions, Child, ChildState
<1>5. /\ u.life = t.life /\ u.open = t.open /\ u.error = t.error /\ u.sub = "joined"
      /\ u.joined = e /\ u.at = "none" /\ u.n = 0 /\ u.arm = "none" /\ u.base = NoBase
      /\ u.esd = NoEsd /\ u.claimed = t.claimed /\ u.verifyPending = t.verifyPending
      /\ u.sensorKey = t.sensorKey /\ u.psk = t.psk /\ u.established = t.established
  BY DEF Acquiring, Sessions
<1>6. /\ u.gen = t.gen /\ u.hw = t.hw /\ u.retained = t.retained /\ u.fdt = t.fdt
      /\ u.baseValid = t.baseValid /\ u.recoveryPending = t.recoveryPending
      /\ u.needsReinit = b
  BY DEF Acquiring, Sessions
<1> HIDE DEF u
<1>7. Children(u)
  BY <1>5 DEF Children
<1>8. Machines(u)
  BY <1>5 DEF Acquiring, Machines, Bringing
<1>9. \/ t.life = "ready" /\ t.open = "none" /\ t.base.forced
      \/ t.life \in {"opening", "reinit"} /\ t.open = "CAPTURE_REF" /\ Cold(t)
  BY DEF Acquiring, Machines, Bringing, Cold
<1>10. Ordered(u)
  BY <1>5, <1>9 DEF Acquiring, Ordered
<1>11. Finishing(u) => Fit(t)
  BY <1>2, <1>5, <1>6, <1>9 DEF Acquiring, Finishing
<1>12. Published(u)
  BY <1>5, <1>6, <1>9, <1>11 DEF Acquiring, Published, Whole, Fit, Sound, Early
<1> QED
  BY <1>1, <1>4, <1>5, <1>7, <1>8, <1>10, <1>12 DEF Inv

LEMMA BaseWaitInv ==
  ASSUME NEW t, Acquiring(t), NEW a \in Unsampled \cup Sampled,
         Cold(t) => t.gen = NoGeneration,
         a \in Sampled => t.base.first # None,
         a \in Cleaning /\ Cold(t) => t.base.error # "none"
  PROVE  LET u == BaseWait(t, a) IN Inv(u) /\ u.life = t.life
<1> DEFINE u == [t EXCEPT !.at = a]
<1>1. BaseWait(t, a) = u
  BY DEF BaseWait
<1>2. u \in Sessions
  BY DEF Acquiring, Sessions, ChildState, Unsampled, Sampled, Cleaning
<1>3. /\ u.life = t.life /\ u.open = t.open /\ u.error = t.error /\ u.sub = "base"
      /\ u.joined = t.joined /\ u.at = a /\ u.n = 0 /\ u.arm = "none" /\ u.base = t.base
      /\ u.esd = NoEsd /\ u.claimed = t.claimed /\ u.verifyPending = t.verifyPending
      /\ u.sensorKey = t.sensorKey /\ u.psk = t.psk /\ u.established = t.established
  BY DEF Acquiring, Sessions
<1>4. /\ u.gen = t.gen /\ u.hw = t.hw /\ u.retained = t.retained /\ u.fdt = t.fdt
      /\ u.baseValid = t.baseValid /\ u.recoveryPending = t.recoveryPending
      /\ u.needsReinit = t.needsReinit
  BY DEF Acquiring, Sessions
<1> HIDE DEF u
<1>5. Children(u)
  BY <1>3 DEF Acquiring, Children
<1>6. Machines(u)
  BY <1>3 DEF Acquiring, Machines, Bringing
<1>7. Ordered(u)
  BY <1>3 DEF Acquiring, Ordered
<1>8. \/ t.life = "ready" /\ t.open = "none" /\ t.base.forced
      \/ t.life \in {"opening", "reinit"} /\ t.open = "CAPTURE_REF" /\ Cold(t)
  BY DEF Acquiring, Machines, Bringing, Cold
<1>9. Finishing(u) => Fit(t)
  BY <1>3, <1>4 DEF Acquiring, Finishing
<1>10. Published(u)
  BY <1>3, <1>4, <1>8, <1>9 DEF Acquiring, Published, Whole, Fit, Sound, Early, Cold
<1> QED
  BY <1>1, <1>2, <1>3, <1>5, <1>6, <1>7, <1>10 DEF Inv

LEMMA BaseCleanupInv ==
  ASSUME NEW t, Acquiring(t), Cold(t) /\ ~t.base.leave => t.gen = NoGeneration,
         Cold(t) /\ t.base.error = "none" => Fit(t)
  PROVE  LET u == BaseCleanup(t) IN Inv(u) /\ u.life = t.life
<1>1. t.base.error \in Error
  BY DEF Acquiring, Sessions, Bases
<1>2. CASE t.base.leave \/ (~t.base.forced /\ t.base.error = "none")
  <2>1. BaseCleanup(t) = BaseJoined(t, t.base.error)
    BY <1>2 DEF BaseCleanup
  <2> QED
    BY <1>1, <2>1, BaseJoinedInv
<1>3. CASE ~(t.base.leave \/ (~t.base.forced /\ t.base.error = "none"))
  <2>1. BaseCleanup(t) = BaseWait(t, "CLEANUP_SLEEP")
    BY <1>3 DEF BaseCleanup
  <2>2. "CLEANUP_SLEEP" \in (Unsampled \cup Sampled) \ Sampled
    BY DEF Unsampled, Sampled, Cleaning
  <2> QED
    BY <1>3, <2>1, <2>2, BaseWaitInv DEF Cold
<1> QED
  BY <1>2, <1>3

LEMMA BaseFailsInv ==
  ASSUME NEW t, Acquiring(t), Cold(t) => t.gen = NoGeneration, NEW e \in Error \ {"none"}
  PROVE  LET u == BaseFails(t, e) IN Inv(u) /\ u.life = t.life
<1> DEFINE base == [t.base EXCEPT !.error = e]
           u == [t EXCEPT !.base = base]
<1>1. BaseFails(t, e) = BaseCleanup(u)
  BY DEF BaseFails
<1>2. base \in Bases /\ base.forced = t.base.forced /\ base.error = e
  BY DEF Acquiring, Sessions, Bases
<1> HIDE DEF base
<1>3. u \in Sessions /\ Same(t, u, {"base"}) /\ u.base = base
  BY <1>2 DEF Acquiring, Sessions, Same
<1> HIDE DEF u
<1>4. /\ u.gen = t.gen /\ u.hw = t.hw /\ u.retained = t.retained /\ u.fdt = t.fdt
      /\ u.baseValid = t.baseValid /\ u.recoveryPending = t.recoveryPending
      /\ u.needsReinit = t.needsReinit /\ u.open = t.open /\ u.life = t.life
      /\ u.sub = t.sub /\ u.joined = t.joined
  BY <1>3 DEF Acquiring, Sessions, Same
<1>5. Same(t, u, Written)
  BY <1>3 DEF Same, Written
<1>6. Whole(u) /\ (u.open = "CAPTURE_REF" => Sound(u)) /\ (Finishing(u) => Fit(u))
  BY <1>4 DEF Acquiring, Whole, Sound, Finishing, Fit
<1>7. Acquiring(u)
  BY <1>2, <1>3, <1>5, <1>6, AcquiringOn
<1> QED
  BY <1>1, <1>2, <1>3, <1>4, <1>7, BaseCleanupInv DEF Cold

LEMMA BaseStepInv ==
  ASSUME NEW t, Acquiring(t), Cold(t) => t.gen = NoGeneration,
         NEW a \in (Unsampled \cup Sampled) \ Cleaning, a \in Sampled => t.base.first # None
  PROVE  LET u == BaseStep(t, a) IN Inv(u) /\ u.life = t.life
<1>1. CASE t.cancelled /\ ~t.base.forced
  <2>1. BaseStep(t, a) = BaseFails(t, "cancelled")
    BY <1>1 DEF BaseStep
  <2> QED
    BY <2>1, BaseFailsInv DEF Error
<1>2. CASE ~(t.cancelled /\ ~t.base.forced)
  <2>1. BaseStep(t, a) = BaseWait(t, a)
    BY <1>2 DEF BaseStep
  <2> QED
    BY <2>1, BaseWaitInv
<1> QED
  BY <1>1, <1>2

\* A rejected acquisition leaves a session that recovers its base later.
LEMMA CompleteRecoveryInv ==
  ASSUME NEW t, Acquiring(t), Cold(t) => t.gen = NoGeneration
  PROVE  LET u == CompleteRecovery(t) IN Inv(u) /\ u.life = t.life
<1> DEFINE u == [t EXCEPT !.baseValid = FALSE, !.fdt = t.base.first]
<1>1. t.base.first \in Token /\ t.base \in Bases
  BY DEF Acquiring, Sessions, Bases
<1>2. u \in Sessions /\ Same(t, u, {"baseValid", "fdt"}) /\ ~u.baseValid
  BY ZenonT(40), <1>1 DEF Acquiring, Sessions, Same
<1>3. CompleteRecovery(t) =
        BaseCleanup(IF t.base.forced THEN u
                    ELSE [RetainProcess(u) EXCEPT !.recoveryPending = TRUE,
                                                  !.base.leave = FALSE])
  BY DEF CompleteRecovery
<1> HIDE DEF u
<1>4. /\ u.gen = t.gen /\ u.hw = t.hw /\ u.retained = t.retained
      /\ u.recoveryPending = t.recoveryPending
      /\ u.needsReinit = t.needsReinit /\ u.open = t.open /\ u.life = t.life
      /\ u.sub = t.sub /\ u.joined = t.joined /\ u.base = t.base
  BY <1>2 DEF Acquiring, Sessions, Same
<1>5. Same(t, u, Written)
  BY <1>2 DEF Same, Written
<1>6. Whole(u) /\ Sound(u) /\ (Finishing(u) => Fit(u))
  BY <1>2, <1>4 DEF Acquiring, Whole, Sound, Finishing, Fit
<1>7. Acquiring(u)
  BY <1>2, <1>4, <1>5, <1>6, AcquiringOn
<1>8. CASE t.base.forced
  <2>1. CompleteRecovery(t) = BaseCleanup(u)
    BY <1>3, <1>8
  <2> QED
    BY <1>4, <1>7, <1>8, <2>1, BaseCleanupInv DEF Cold
<1>9. CASE ~t.base.forced
  <2> DEFINE r == u.retained \/ u.gen # NoGeneration
             v == [u EXCEPT !.retained = r, !.gen = NoGeneration]
             base == [u.base EXCEPT !.leave = FALSE]
             w == [v EXCEPT !.recoveryPending = TRUE, !.base = base]
  <2>1. v = RetainProcess(u) /\ r \in BOOLEAN
    BY <1>2 DEF RetainProcess, Sessions
  <2> HIDE DEF r
  <2>2. v \in Sessions /\ Same(u, v, {"retained", "gen"}) /\ v.gen = NoGeneration
    BY ZenonT(40), <1>2, <2>1, Nothing DEF Sessions, Same
  <2>3. CompleteRecovery(t) = BaseCleanup([v EXCEPT !.recoveryPending = TRUE,
                                                    !.base.leave = FALSE])
    BY <1>3, <1>9, <2>1
  <2> HIDE DEF v
  <2>4. v.base = u.base /\ v.base \in Bases
    BY <1>1, <1>2, <1>4, <2>2 DEF Same, Sessions
  <2>5. CompleteRecovery(t) = BaseCleanup(w)
    BY <2>2, <2>3, <2>4
  <2>6. base \in Bases /\ base.forced = t.base.forced
    BY <1>1, <1>4 DEF Bases
  <2> HIDE DEF base
  <2>7. w \in Sessions /\ Same(v, w, {"recoveryPending", "base"}) /\ w.recoveryPending
        /\ w.base = base
    BY <2>2, <2>6 DEF Sessions, Same
  <2> HIDE DEF w
  <2>8. Same(t, w, Written)
    BY <1>2, <2>2, <2>7 DEF Same, Written, Sessions, Acquiring
  <2>9. /\ w.gen = NoGeneration /\ w.hw = t.hw /\ ~w.baseValid
    BY <1>2, <1>4, <2>2, <2>7 DEF Acquiring, Sessions, Same
  <2>10. Whole(w) /\ Sound(w) /\ Fit(w)
    BY <1>9, <2>7, <2>9 DEF Acquiring, Whole, Sound, Fit, Cold
  <2>11. Acquiring(w) /\ w.life = t.life
    BY <2>6, <2>7, <2>8, <2>10, AcquiringOn
  <2> QED
    BY <2>5, <2>9, <2>10, <2>11, BaseCleanupInv
<1> QED
  BY <1>1, <1>8, <1>9

LEMMA FreshIs ==
  ASSUME NEW t \in Sessions
  PROVE  /\ Fresh(t) \in Token \ {None}
         /\ FreshId(t) \in 1 .. 3 /\ FreshId(t) # t.hw.id /\ FreshId(t) # t.gen.id
<1>1. \A a, b, c, d : \E k \in 1 .. 5 : k \notin {a, b, c, d}
  <2> SUFFICES ASSUME NEW a, NEW b, NEW c, NEW d
               PROVE  \E k \in 1 .. 5 : k \notin {a, b, c, d}
    OBVIOUS
  <2>1. {1, 2, 3, 4, 5} \subseteq 1 .. 5
    OBVIOUS
  <2>2. CASE 1 \notin {a, b, c, d}
    BY <2>1, <2>2
  <2>3. CASE 2 \notin {a, b, c, d}
    BY <2>1, <2>3
  <2>4. CASE 3 \notin {a, b, c, d}
    BY <2>1, <2>4
  <2>5. CASE 4 \notin {a, b, c, d}
    BY <2>1, <2>5
  <2>6. CASE 5 \notin {a, b, c, d}
    BY <2>1, <2>6
  <2>7. \E k \in {1, 2, 3, 4, 5} : k \notin {a, b, c, d}
    OBVIOUS
  <2> QED
    BY <2>2, <2>3, <2>4, <2>5, <2>6, <2>7
<1>2. \A a, b : \E k \in 1 .. 3 : k \notin {a, b}
  <2> SUFFICES ASSUME NEW a, NEW b
               PROVE  \E k \in 1 .. 3 : k \notin {a, b}
    OBVIOUS
  <2>1. {1, 2, 3} \subseteq 1 .. 3 /\ \E k \in {1, 2, 3} : k \notin {a, b}
    OBVIOUS
  <2> QED
    BY <2>1
<1>3. Fresh(t) \in 1 .. 5
  BY <1>1 DEF Fresh
<1>4. FreshId(t) \in 1 .. 3 /\ FreshId(t) \notin {t.hw.id, t.gen.id}
  BY <1>2 DEF FreshId
<1> QED
  BY <1>3, <1>4 DEF Token, None

\* The admitted reference, its identity and its bases appear in one step.
LEMMA PublishInv ==
  ASSUME NEW t, Acquiring(t), Cold(t) => t.gen = NoGeneration, t.base.first # None
  PROVE  LET u == Publish(t) IN Inv(u) /\ u.life = t.life
<1> DEFINE id == FreshId(t)
           first == [NoGeneration EXCEPT !.id = id, !.setup = t.base.first,
                                         !.refresh = t.retained]
           keeps == t.base.forced /\ t.gen # NoGeneration
           published == IF keeps THEN t.gen ELSE first
           retained == t.retained /\ keeps
           marked == t.hw.pending \/ (t.base.forced /\ t.base.reason \notin Unmarked)
           hw == [ref |-> t.base.first, id |-> id, pending |-> marked]
           base == [t.base EXCEPT !.leave = TRUE]
           u == [t EXCEPT !.gen = published, !.retained = retained, !.hw = hw,
                          !.fdt = t.base.first, !.baseValid = TRUE,
                          !.recoveryPending = FALSE, !.base = base]
<1>1. t \in Sessions /\ t.base \in Bases /\ t.gen \in Generations /\ t.hw \in References
      /\ t.retained \in BOOLEAN /\ t.base.first \in Token \ {None}
  BY DEF Acquiring, Sessions, Bases
<1>2. Publish(t) = BaseCleanup([t EXCEPT
        !.gen = published, !.retained = retained, !.hw = hw, !.fdt = t.base.first,
        !.baseValid = TRUE, !.recoveryPending = FALSE, !.base.leave = TRUE])
  BY <1>1 DEF Publish, Sessions
<1>3. Publish(t) = BaseCleanup(u)
  BY <1>1, <1>2
<1>4. id \in 1 .. 3 /\ id # t.hw.id /\ id # t.gen.id
  BY <1>1, FreshIs
<1> HIDE DEF id
<1>5. first \in Generations /\ first.id = id /\ first.setup = t.base.first
  <2>1. id \in 0 .. 3
    BY <1>4
  <2> QED
    BY <1>1, <2>1, Nothing DEF Generations
<1> HIDE DEF first
<1>6. first # NoGeneration /\ first.id # None
  BY <1>4, <1>5, Nothing DEF None
<1>7. keeps \in BOOLEAN /\ retained \in BOOLEAN /\ marked \in BOOLEAN
  BY <1>1 DEF Bases, References
<1>8. /\ published \in Generations /\ published # NoGeneration /\ published.id # None /\ ~retained
      /\ published.id = id => published.setup = t.base.first
  <2>1. CASE keeps
    BY <1>1, <1>4, <2>1 DEF Acquiring, Whole
  <2>2. CASE ~keeps
    BY <1>5, <1>6, <2>2
  <2> QED
    BY <2>1, <2>2
<1> HIDE DEF keeps, published, retained, marked
<1>9. hw \in References /\ hw.ref = t.base.first /\ hw.id = id /\ id # None
  BY <1>1, <1>4, <1>7 DEF References, None
<1> HIDE DEF hw
<1>10. base \in Bases /\ base.forced = t.base.forced /\ base.leave
  BY <1>1 DEF Bases
<1> HIDE DEF base
<1>11. u \in Sessions /\ Same(t, u, Written)
  <2> DEFINE yes == TRUE
             no == FALSE
             v == [t EXCEPT !.gen = published, !.retained = retained, !.hw = hw,
                            !.fdt = t.base.first]
             w == [v EXCEPT !.baseValid = yes, !.recoveryPending = no, !.base = base]
  <2>1. yes \in BOOLEAN /\ no \in BOOLEAN
    OBVIOUS
  <2>2. u = w
    OBVIOUS
  <2> HIDE DEF yes, no
  <2>3. v \in Sessions /\ Same(t, v, Written)
    BY ZenonT(40), <1>1, <1>7, <1>8, <1>9 DEF Sessions, Same, Written
  <2> HIDE DEF v
  <2>4. w \in Sessions /\ Same(v, w, Written)
    <3>1. w \in Sessions
      BY ZenonT(40), <1>10, <2>1, <2>3 DEF Sessions
    <3>2. Same(v, w, Written)
      BY DEF Same, Written
    <3> QED
      BY <3>1, <3>2
  <2> HIDE DEF w
  <2>5. Same(t, w, Written)
    BY <1>1, <2>3, <2>4 DEF Sessions, Same
  <2> HIDE DEF u
  <2> QED
    BY <2>2, <2>4, <2>5
<1>12. /\ u.gen = published /\ u.retained = retained /\ u.hw = hw /\ u.fdt = t.base.first
       /\ u.base = base
  BY <1>1 DEF Sessions
<1> HIDE DEF u
<1>13. Whole(u) /\ Sound(u) /\ Fit(u)
  BY <1>1, <1>8, <1>9, <1>12 DEF Whole, Sound, Fit
<1>14. Acquiring(u) /\ u.life = t.life
  BY <1>10, <1>11, <1>12, <1>13, AcquiringOn
<1> QED
  BY <1>3, <1>10, <1>12, <1>13, <1>14, BaseCleanupInv

LEMMA BaseExhaustedInv ==
  ASSUME NEW t, Acquiring(t), Cold(t) => t.gen = NoGeneration
  PROVE  LET u == BaseExhausted(t) IN Inv(u) /\ u.life = t.life
<1>1. CASE t.base.first # None
  BY <1>1, CompleteRecoveryInv DEF BaseExhausted
<1>2. CASE t.base.first = None
  <2> DEFINE r == t.recoveryPending \/ ~t.base.forced
             u == [t EXCEPT !.recoveryPending = r]
  <2>1. BaseExhausted(t) = BaseCleanup(u) /\ r \in BOOLEAN /\ (t.recoveryPending => r)
        /\ (Cold(t) => r)
    BY <1>2 DEF BaseExhausted, Acquiring, Sessions, Cold
  <2> HIDE DEF r
  <2>2. u \in Sessions /\ Same(t, u, {"recoveryPending"}) /\ u.recoveryPending = r
    BY <2>1 DEF Acquiring, Sessions, Same
  <2> HIDE DEF u
  <2>3. /\ u.gen = t.gen /\ u.hw = t.hw /\ u.retained = t.retained /\ u.fdt = t.fdt
        /\ u.baseValid = t.baseValid
        /\ u.needsReinit = t.needsReinit /\ u.open = t.open /\ u.life = t.life
        /\ u.sub = t.sub /\ u.joined = t.joined /\ u.base = t.base
    BY <2>2 DEF Acquiring, Sessions, Same
  <2>4. Same(t, u, Written)
    BY <2>2 DEF Same, Written
  <2>5. Whole(u) /\ (u.open = "CAPTURE_REF" => Sound(u)) /\ (Finishing(u) => Fit(u))
    BY <2>1, <2>2, <2>3 DEF Acquiring, Whole, Sound, Finishing, Fit
  <2>6. Cold(u) => Fit(u)
    BY <2>1, <2>2, <2>3, <2>5 DEF Acquiring, Cold, Fit
  <2>7. Acquiring(u)
    BY <2>2, <2>3, <2>4, <2>5, AcquiringOn
  <2> QED
    BY <2>1, <2>3, <2>6, <2>7, BaseCleanupInv DEF Cold
<1> QED
  BY <1>1, <1>2

\* A step of an acquisition.
LEMMA BaseInv ==
  ASSUME NEW t, Inv(t), t.sub = "base",
         NEW o \in {"ok", "rejected", "exhausted", "fault", "cancelled", "gone"}
  PROVE  LET u == BaseCommand(t, o) IN Inv(u) /\ u.life = t.life
<1>1. /\ Acquiring(t) /\ t.at \in Unsampled \cup Sampled /\ (Cold(t) => t.gen = NoGeneration)
      /\ (t.at \in Sampled => t.base.first # None) /\ t \in Sessions
  BY AcquiringIs DEF Inv
<1>2. t.base \in Bases /\ t.base.error \in Error
  BY <1>1 DEF Sessions, Bases
<1>3. ASSUME NEW a \in Sampled, t.at \in Sampled
      PROVE  Inv(BaseStep(t, a)) /\ BaseStep(t, a).life = t.life
  <2>1. a \in (Unsampled \cup Sampled) \ Cleaning
    BY DEF Sampled, Cleaning
  <2> QED
    BY <1>1, <1>3, <2>1, BaseStepInv
<1> DEFINE u == BaseCommand(t, o)
<1>4. CASE t.at \in Cleaning
  <2>1. Cold(t) => t.base.error # "none"
    BY <1>4 DEF Inv, Published, Cold
  <2>2. CASE t.at = "CLEANUP_SLEEP"
    <3>1. u = BaseWait(t, "CLEANUP_EC_POWER_OFF")
      BY <2>2 DEF BaseCommand
    <3>2. "CLEANUP_EC_POWER_OFF" \in (Unsampled \cup Sampled) \ Sampled
      BY DEF Unsampled, Sampled, Cleaning
    <3> QED
      BY <1>1, <2>1, <3>1, <3>2, BaseWaitInv
  <2>3. CASE t.at = "CLEANUP_EC_POWER_OFF"
    <3>1. u = BaseJoined(t, t.base.error)
      BY <2>3 DEF BaseCommand
    <3> QED
      BY <1>1, <1>2, <2>1, <3>1, BaseJoinedInv
  <2> QED
    BY <1>4, <2>2, <2>3 DEF Cleaning
<1>5. CASE t.at \in {"HEALTH_FIRST", "HEALTH_SECOND"} /\ o = "exhausted"
  <2>1. u = BaseStep(t, "VALIDATE")
    BY <1>5 DEF BaseCommand
  <2> QED
    BY <1>3, <1>5, <2>1 DEF Sampled
<1>6. CASE t.at \notin Cleaning \cup {"HEALTH_FIRST", "HEALTH_SECOND"} /\ o = "exhausted"
  <2>1. u = BaseExhausted(t)
    BY <1>6 DEF BaseCommand, Cleaning
  <2> QED
    BY <1>1, <2>1, BaseExhaustedInv
<1>7. CASE t.at \notin Cleaning /\ o = "rejected"
  <2>1. u = CompleteRecovery(t)
    BY <1>7 DEF BaseCommand, Cleaning
  <2> QED
    BY <1>1, <2>1, CompleteRecoveryInv
<1>8. CASE t.at \notin Cleaning /\ o \in {"fault", "cancelled", "gone"}
  <2>1. u = BaseFails(t, o) /\ o \in Error \ {"none"}
    BY <1>8 DEF BaseCommand, Cleaning, Error
  <2> QED
    BY <1>1, <2>1, BaseFailsInv
<1>9. CASE t.at = "UPLOAD_CONFIG" /\ o = "ok"
  <2>1. u = BaseStep(t, "FDT_TX_ON_BEFORE")
    BY <1>9 DEF BaseCommand
  <2>2. "FDT_TX_ON_BEFORE" \in ((Unsampled \cup Sampled) \ Cleaning) \ Sampled
    BY DEF Unsampled, Sampled, Cleaning
  <2> QED
    BY <1>1, <2>1, <2>2, BaseStepInv
<1>10. CASE t.at = "FDT_TX_ON_BEFORE" /\ o = "ok"
  <2> DEFINE k == Fresh(t)
             base == [t.base EXCEPT !.first = k]
             v == [t EXCEPT !.base = base]
  <2>1. u = BaseStep(v, "CAPTURE_TX_ON")
    BY <1>10 DEF BaseCommand
  <2>2. k \in Token /\ k # None
    BY <1>1, FreshIs
  <2> HIDE DEF k
  <2>3. base \in Bases /\ base.forced = t.base.forced /\ base.first = k
    BY <1>2, <2>2 DEF Bases
  <2> HIDE DEF base
  <2>4. v \in Sessions /\ Same(t, v, {"base"}) /\ v.base = base
    BY <1>1, <2>3 DEF Sessions, Same
  <2> HIDE DEF v
  <2>5. /\ v.gen = t.gen /\ v.hw = t.hw /\ v.retained = t.retained /\ v.fdt = t.fdt
        /\ v.baseValid = t.baseValid /\ v.recoveryPending = t.recoveryPending
        /\ v.needsReinit = t.needsReinit /\ v.open = t.open /\ v.life = t.life
        /\ v.sub = t.sub /\ v.joined = t.joined
    BY <1>1, <2>4 DEF Sessions, Same
  <2>6. Same(t, v, Written)
    BY <2>4 DEF Same, Written
  <2>7. Whole(v) /\ (v.open = "CAPTURE_REF" => Sound(v)) /\ (Finishing(v) => Fit(v))
    BY <1>1, <2>5 DEF Acquiring, Whole, Sound, Finishing, Fit
  <2>8. Acquiring(v)
    BY <1>1, <2>3, <2>4, <2>6, <2>7, AcquiringOn
  <2>9. "CAPTURE_TX_ON" \in (Unsampled \cup Sampled) \ Cleaning
    BY DEF Sampled, Cleaning
  <2> QED
    BY <1>1, <2>1, <2>2, <2>3, <2>4, <2>5, <2>8, <2>9, BaseStepInv DEF Cold
<1>11. CASE t.at \in Sampled \ {"HEALTH_FIRST", "FDT_TX_ON_AFTER"} /\ o = "ok"
  <2>1. PICK a \in Sampled : u = BaseStep(t, a)
    BY <1>11 DEF BaseCommand, Sampled
  <2> QED
    BY <1>3, <1>11, <2>1
<1>12. CASE t.at = "HEALTH_FIRST" /\ o = "ok"
  <2>1. u = BaseWait(t, "HEALTH_SECOND")
    BY <1>12 DEF BaseCommand
  <2>2. "HEALTH_SECOND" \in (Unsampled \cup Sampled) \ Cleaning /\ t.at \in Sampled
    BY <1>12 DEF Sampled, Cleaning
  <2> QED
    BY <1>1, <2>1, <2>2, BaseWaitInv
<1>13. CASE t.at = "FDT_TX_ON_AFTER" /\ o = "ok"
  <2>1. u = Publish(t) /\ t.at \in Sampled
    BY <1>13 DEF BaseCommand, Sampled
  <2> QED
    BY <1>1, <2>1, PublishInv
<1> QED
  BY <1>1, <1>4, <1>5, <1>6, <1>7, <1>8, <1>9, <1>10, <1>11, <1>12, <1>13
  DEF Unsampled, Sampled, Cleaning

LEMMA NewBaseIs ==
  ASSUME NEW forced \in BOOLEAN, NEW reason \in Reason \cup {"NONE"}
  PROVE  LET base == [NoBase EXCEPT !.forced = forced, !.reason = reason, !.leave = forced]
         IN  base \in Bases /\ base.forced = forced
<1>1. NoBase \in Bases
  BY DEF NoBase, Bases, Token, None, Error
<1> QED
  BY <1>1 DEF Bases

\* An initialization acquires its reference on the sensor it has configured.
LEMMA ColdStartInv ==
  ASSUME NEW t, Ending(t), t.open = "CAPTURE_REF", t.error = "none", t.claimed,
         t.established, t.sensorKey = t.psk, t.gen = NoGeneration
  PROVE  LET u == BaseStart(t, FALSE, "NONE") IN Inv(u) /\ u.life = t.life
<1> DEFINE no == FALSE
           base == [NoBase EXCEPT !.forced = no, !.reason = "NONE", !.leave = no]
           v == [t EXCEPT !.sub = "base", !.baseValid = no, !.base = base]
           u == [v EXCEPT !.recoveryPending = no]
<1>1. BaseStart(t, FALSE, "NONE") = BaseStep(u, "FDT_TX_ON_BEFORE")
  BY DEF BaseStart
<1>2. no \in BOOLEAN /\ ~no
  OBVIOUS
<1> HIDE DEF no
<1>3. base \in Bases /\ base.forced = no
  BY <1>2, NewBaseIs
<1> HIDE DEF base
<1>4. v \in Sessions /\ Same(t, v, {"sub", "baseValid", "base"}) /\ v.sub = "base"
      /\ v.baseValid = no /\ v.base = base
  BY ZenonT(40), <1>2, <1>3 DEF Ending, Sessions, Child, Same
<1> HIDE DEF v
<1>5. u \in Sessions /\ Same(v, u, {"recoveryPending"})
  BY <1>2, <1>4 DEF Sessions, Same
<1> HIDE DEF u
<1>6. /\ u.life = t.life /\ u.open = "CAPTURE_REF" /\ u.error = "none" /\ u.sub = "base"
      /\ u.joined = "none" /\ u.n = 0 /\ u.arm = "none" /\ u.at = "none"
      /\ u.esd = NoEsd /\ u.claimed /\ u.sensorKey = u.psk /\ u.established
      /\ u.base = base /\ ~u.baseValid
  BY <1>2, <1>4, <1>5 DEF Ending, Sessions, Same
<1>7. u.gen = NoGeneration /\ u.hw = t.hw /\ u.retained = t.retained
  BY <1>4, <1>5 DEF Ending, Sessions, Same
<1>8. u.life \in {"opening", "reinit"}
  BY <1>6 DEF Ending, Bringing
<1>9. Machines(u)
  BY <1>6, <1>8 DEF Machines, Bringing, Delegating
<1>10. Ordered(u)
  BY <1>6, <1>8 DEF Ordered, Unclaimed
<1>11. Whole(u) /\ Sound(u) /\ ~Finishing(u)
  BY <1>6, <1>7, <1>8 DEF Ending, Whole, Sound, Finishing
<1>12. ~u.base.forced
  BY <1>2, <1>3, <1>6
<1>13. Acquiring(u)
  BY <1>5, <1>6, <1>9, <1>10, <1>11, <1>12 DEF Acquiring
<1>14. "FDT_TX_ON_BEFORE" \in ((Unsampled \cup Sampled) \ Cleaning) \ Sampled
  BY DEF Unsampled, Sampled, Cleaning
<1> QED
  <2>1. Inv(BaseStep(u, "FDT_TX_ON_BEFORE")) /\ BaseStep(u, "FDT_TX_ON_BEFORE").life = u.life
    BY <1>7, <1>13, <1>14, BaseStepInv
  <2> QED
    BY <1>1, <1>6, <2>1

\* The coordinator replaces the reference of a session that is ready.
LEMMA ForcedStartInv ==
  ASSUME NEW t, Inv(t), t.life = "ready", t.sub = "none", ~t.needsReinit,
         NEW reason \in Reason
  PROVE  LET u == BaseStart(t, TRUE, reason)
         IN  Inv(u) /\ u.life = t.life /\ u.sub # "joined"
<1> DEFINE yes == TRUE
           no == FALSE
           base == [NoBase EXCEPT !.forced = yes, !.reason = reason, !.leave = yes]
           v == [t EXCEPT !.sub = "base", !.baseValid = no, !.base = base]
           u == [v EXCEPT !.at = "UPLOAD_CONFIG"]
<1>1. yes \in BOOLEAN /\ yes /\ no \in BOOLEAN /\ ~no
  OBVIOUS
<1>2. BaseStart(t, TRUE, reason) = BaseStep(v, "UPLOAD_CONFIG")
  BY DEF BaseStart
<1> HIDE DEF yes, no
<1>3. base \in Bases /\ base.forced = yes
  BY <1>1, NewBaseIs
<1> HIDE DEF base
<1>4. v \in Sessions /\ Same(t, v, {"sub", "baseValid", "base"}) /\ v.sub = "base"
      /\ v.baseValid = no /\ v.base = base
  BY <1>1, <1>3 DEF Inv, Sessions, Child, Same
<1> HIDE DEF v
<1>5. /\ v.life = "ready" /\ v.open = t.open /\ v.error = t.error /\ v.joined = t.joined
      /\ v.n = 0 /\ v.arm = "none" /\ v.at = "none" /\ v.esd = NoEsd
      /\ v.claimed = t.claimed /\ v.verifyPending = t.verifyPending
      /\ v.sensorKey = t.sensorKey /\ v.psk = t.psk /\ v.established = t.established
  BY <1>4 DEF Inv, Children, Sessions, Same
<1>6. /\ v.gen = t.gen /\ v.hw = t.hw /\ v.retained = t.retained /\ v.fdt = t.fdt
      /\ v.recoveryPending = t.recoveryPending /\ v.needsReinit = t.needsReinit
  BY <1>4 DEF Inv, Sessions, Same
<1>7. v.open = "none"
  BY <1>5 DEF Inv, Machines, Bringing
<1>8. Machines(v)
  BY <1>4, <1>5, <1>7 DEF Inv, Machines, Bringing
<1>9. Ordered(v)
  BY <1>4, <1>5, <1>7 DEF Inv, Ordered
<1>10. Fit(t)
  BY DEF Inv, Published, Finishing
<1>11. Whole(v) /\ Sound(v) /\ Fit(v)
  BY <1>1, <1>4, <1>6, <1>10 DEF Inv, Published, Whole, Sound, Fit
<1>12. v.base.forced
  BY <1>1, <1>3, <1>4
<1>13. Acquiring(v)
  BY <1>4, <1>5, <1>8, <1>9, <1>11, <1>12 DEF Acquiring
<1>14. "UPLOAD_CONFIG" \in ((Unsampled \cup Sampled) \ Cleaning) \ Sampled
  BY DEF Unsampled, Sampled, Cleaning
<1>15. BaseStep(v, "UPLOAD_CONFIG") = u
  BY <1>12 DEF BaseStep, BaseWait
<1>16. u.sub = "base"
  BY <1>4 DEF Sessions
<1> QED
  <2>1. Inv(BaseStep(v, "UPLOAD_CONFIG")) /\ BaseStep(v, "UPLOAD_CONFIG").life = v.life
    BY <1>12, <1>13, <1>14, BaseStepInv DEF Cold
  <2> QED
    BY <1>2, <1>5, <1>15, <1>16, <2>1

\* ---------------------------------------------------------------------------
\* The commands of the open machine itself.

LEMMA EndingIs ==
  ASSUME NEW t, Inv(t), t.sub = "none", Bringing(t)
  PROVE  Ending(t) /\ t.open # "none" /\ t.open \notin Delegating
  BY DEF Inv, Children, Machines, Published, Ending

\* The next command of an open machine that has not failed.
LEMMA WaitInv ==
  ASSUME NEW t, Ending(t), t.error = "none", t.claimed,
         NEW state \in {"READ_OTP", "READ_PSK_HASH", "WRITE_PSK", "VERIFY_PSK_WRITE",
                        "UPLOAD_CONFIG", "FINAL_FIRMWARE", "FINAL_SLEEP"},
         state \in {"WRITE_PSK", "VERIFY_PSK_WRITE"} => t.verifyPending,
         state \in Confirmed => t.sensorKey = t.psk /\ t.established,
         state \in {"FINAL_FIRMWARE", "FINAL_SLEEP"} => Fit(t),
         state \notin {"FINAL_FIRMWARE", "FINAL_SLEEP"} => t.gen = NoGeneration
  PROVE  LET u == Wait(t, state) IN Inv(u) /\ u.life = t.life /\ u.sub = "none"
<1> DEFINE u == [t EXCEPT !.open = state]
<1>1. Wait(t, state) = u
  BY DEF Wait
<1>2. u \in Sessions /\ u.open = state /\ Same(t, u, {"open"})
  BY DEF Ending, Sessions, OpenState, Same
<1> HIDE DEF u
<1>3. /\ u.life = t.life /\ u.error = "none" /\ u.sub = "none"
      /\ u.joined = "none" /\ u.n = 0 /\ u.arm = "none" /\ u.at = "none"
      /\ u.base = NoBase /\ u.esd = NoEsd /\ u.claimed
      /\ u.verifyPending = t.verifyPending
      /\ u.sensorKey = t.sensorKey /\ u.psk = t.psk /\ u.established = t.established
  BY <1>2 DEF Ending, Sessions, Same
<1>4. /\ u.gen = t.gen /\ u.hw = t.hw /\ u.retained = t.retained /\ u.fdt = t.fdt
      /\ u.baseValid = t.baseValid /\ u.recoveryPending = t.recoveryPending
  BY <1>2 DEF Ending, Sessions, Same
<1>5. u.life \in {"opening", "reinit"}
  BY <1>3 DEF Ending, Bringing
<1>6. Children(u)
  BY <1>3 DEF Children
<1>7. Machines(u)
  BY <1>2, <1>3, <1>5 DEF Machines, Bringing, Delegating
<1>8. Ordered(u)
  BY <1>2, <1>3, <1>5 DEF Ordered, Unclaimed, Confirmed, Handshaken
<1>9. Published(u)
  BY <1>2, <1>3, <1>4, <1>5 DEF Ending, Published, Whole, Finishing, Fit, Sound, Early
<1> QED
  BY <1>1, <1>2, <1>3, <1>6, <1>7, <1>8, <1>9 DEF Inv

\* Nothing but some fields of a machine that waits for nothing has changed.
LEMMA EndingOn ==
  ASSUME NEW t, Ending(t), NEW u \in Sessions,
         Same(t, u, {"psk", "imported", "verifyPending", "powered", "gtlsFailed",
                     "claimed", "open", "baseValid", "recoveryPending"})
  PROVE  /\ Ending(u) /\ u.life = t.life /\ u.error = t.error /\ u.gen = t.gen
         /\ u.hw = t.hw /\ u.sensorKey = t.sensorKey /\ u.established = t.established
         /\ u.fdt = t.fdt /\ u.retained = t.retained
<1>1. t \in Sessions
  BY DEF Ending
<1>2. /\ u.life = t.life /\ u.error = t.error /\ u.gen = t.gen
      /\ u.hw = t.hw /\ u.sensorKey = t.sensorKey /\ u.established = t.established
      /\ u.sub = t.sub /\ u.joined = t.joined /\ u.at = t.at /\ u.n = t.n
      /\ u.arm = t.arm /\ u.base = t.base /\ u.esd = t.esd /\ u.retained = t.retained
      /\ u.fdt = t.fdt
  BY <1>1 DEF Same, Sessions
<1> QED
  BY <1>2 DEF Ending, Bringing, Whole

\* The handshake of an initialization, on a sensor that holds the key.
LEMMA OpenGtlsInv ==
  ASSUME NEW t, Ending(t), t.error = "none", t.claimed, t.gen = NoGeneration,
         t.sensorKey = t.psk
  PROVE  LET u == OpenGtls(t) IN Inv(u) /\ u.life = t.life
<1> DEFINE no == FALSE
           v == [t EXCEPT !.open = "GTLS", !.verifyPending = no, !.gtlsFailed = no]
<1>1. OpenGtls(t) = StartGtls(v)
  BY DEF OpenGtls
<1>2. no \in BOOLEAN
  OBVIOUS
<1> HIDE DEF no
<1>3. v \in Sessions /\ Same(t, v, {"open", "verifyPending", "gtlsFailed"})
      /\ v.open = "GTLS"
  <2>1. v \in Sessions
    BY ZenonT(40), <1>2 DEF Ending, Sessions, OpenState
  <2>2. Same(t, v, {"open", "verifyPending", "gtlsFailed"}) /\ v.open = "GTLS"
    BY DEF Ending, Sessions, Same
  <2> QED
    BY <2>1, <2>2
<1> HIDE DEF v
<1>4. Ending(v) /\ v.life = t.life /\ v.error = "none" /\ v.gen = NoGeneration
      /\ v.sensorKey = t.sensorKey
  BY <1>3, EndingOn DEF Same
<1>5. v.psk = t.psk /\ v.claimed
  BY <1>3 DEF Ending, Same, Sessions
<1>6. v.life \in {"opening", "reinit"}
  BY <1>4 DEF Ending, Bringing
<1>7. Ordered(v)
  BY <1>3, <1>4, <1>5, <1>6 DEF Ending, Ordered, Unclaimed, Confirmed, Handshaken
<1>8. Published(v)
  BY <1>3, <1>4, <1>6 DEF Ending, Published, Finishing
<1> QED
  BY <1>1, <1>3, <1>4, <1>7, <1>8, StartGtlsInv DEF Ending

\* The key is compared before it is written, and again after it was.
LEMMA PskInv ==
  ASSUME NEW t, Ending(t), t.error = "none", t.claimed, t.gen = NoGeneration
  PROVE  /\ Sequel(t, SelectPsk(t))
         /\ t.verifyPending => Sequel(t, VerifyPsk(t))
<1>1. Sequel(t, Fail(t, "fault"))
  BY FailInv DEF Sequel, Granted, Error
<1>2. t.sensorKey = t.psk => Sequel(t, OpenGtls(t))
  BY OpenGtlsInv, SameLife
<1>3. Sequel(t, Wait([t EXCEPT !.verifyPending = TRUE], "WRITE_PSK"))
  <2> DEFINE yes == TRUE
             v == [t EXCEPT !.verifyPending = yes]
  <2>1. yes \in BOOLEAN /\ yes
    OBVIOUS
  <2> HIDE DEF yes
  <2>2. v \in Sessions /\ Same(t, v, {"verifyPending"}) /\ v.verifyPending
    BY ZenonT(40), <2>1 DEF Ending, Sessions, Same
  <2> HIDE DEF v
  <2>3. Ending(v) /\ v.life = t.life /\ v.error = "none" /\ v.gen = NoGeneration
    BY <2>2, EndingOn DEF Same
  <2>4. v.claimed
    BY <2>2 DEF Ending, Same, Sessions
  <2>5. Inv(Wait(v, "WRITE_PSK")) /\ Wait(v, "WRITE_PSK").life = t.life
    BY <2>2, <2>3, <2>4, WaitInv DEF Confirmed
  <2> QED
    BY <2>5, SameLife DEF v, yes
<1>4. Sequel(t, SelectPsk(t))
  BY <1>1, <1>2, <1>3 DEF SelectPsk
<1>5. t.verifyPending => Sequel(t, VerifyPsk(t))
  BY <1>1, <1>2 DEF VerifyPsk
<1> QED
  BY <1>4, <1>5

LEMMA FailSequel ==
  ASSUME NEW r, NEW t, Ending(t), t.error = "none", NEW e \in Error \ {"none"}
  PROVE  Sequel(r, Fail(t, e))
  BY FailInv DEF Sequel, Granted

LEMMA NativeInv ==
  ASSUME NEW t, Inv(t), t.sub = "none", Bringing(t),
         t.open \in {"UPLOAD_CONFIG", "FINAL_FIRMWARE", "FINAL_SLEEP"},
         NEW o \in {"ok", "exhausted", "fault", "cancelled", "gone"}
  PROVE  Sequel(t, NativeResult(t, o))
<1>1. Ending(t)
  BY EndingIs
<1>2. t.error = "none" /\ t.claimed /\ t.sensorKey = t.psk /\ t.established
  BY DEF Inv, Machines, Ordered, Unclaimed, Confirmed, Handshaken
<1>3. t.open = "UPLOAD_CONFIG" => t.gen = NoGeneration
  BY DEF Inv, Published, Early
<1>4. t.open # "UPLOAD_CONFIG" => Fit(t)
  BY DEF Inv, Published, Finishing
<1> DEFINE u == NativeResult(t, o)
<1>5. CASE o \notin {"ok", "exhausted"}
  <2>1. u = Fail(t, o) /\ o \in Error \ {"none"}
    BY <1>5 DEF NativeResult, Error
  <2> QED
    BY <1>1, <1>2, <2>1, FailSequel
<1>6. CASE o \in {"ok", "exhausted"} /\ ~Probed(t)
  <2>1. u = Fail(t, ProbeError(t))
    BY <1>6 DEF NativeResult
  <2> QED
    BY <1>1, <1>2, <2>1, FailSequel, ProbeErrorIs
<1>7. CASE Probed(t) /\ t.open = "UPLOAD_CONFIG" /\ o = "exhausted"
  <2> DEFINE no == FALSE
             v == [t EXCEPT !.baseValid = no, !.recoveryPending = ~no]
  <2>1. u = Wait(v, "FINAL_FIRMWARE")
    BY <1>7 DEF NativeResult, ConfigFailed
  <2>2. no \in BOOLEAN /\ ~no
    OBVIOUS
  <2> HIDE DEF no
  <2>3. v \in Sessions /\ Same(t, v, {"baseValid", "recoveryPending"})
    BY ZenonT(40), <1>1, <2>2 DEF Ending, Sessions, Same
  <2>4. ~v.baseValid /\ v.recoveryPending
    BY <1>1, <2>2 DEF Ending, Sessions
  <2> HIDE DEF v
  <2>5. Ending(v) /\ v.life = t.life /\ v.error = "none"
    BY <1>1, <1>2, <2>3, EndingOn DEF Same
  <2>6. v.claimed /\ v.sensorKey = v.psk /\ v.established
    BY <1>1, <1>2, <2>3 DEF Ending, Same, Sessions
  <2>7. Fit(v)
    BY <2>4 DEF Fit, Sound
  <2>8. Inv(u) /\ u.life = t.life
    BY <1>2, <2>1, <2>5, <2>6, <2>7, WaitInv
  <2> QED
    BY <2>8, SameLife
<1>8. CASE Probed(t) /\ t.open = "UPLOAD_CONFIG" /\ o = "ok"
  <2> DEFINE v == [t EXCEPT !.open = "CAPTURE_REF"]
  <2>1. u = BaseStart(v, FALSE, "NONE")
    BY <1>8 DEF NativeResult, Wait
  <2>2. v \in Sessions /\ Same(t, v, {"open"}) /\ v.open = "CAPTURE_REF"
    BY <1>1 DEF Ending, Sessions, OpenState, Same
  <2> HIDE DEF v
  <2>3. Ending(v) /\ v.life = t.life /\ v.error = "none" /\ v.gen = NoGeneration
    BY <1>1, <1>2, <1>3, <1>8, <2>2, EndingOn DEF Same
  <2>4. v.claimed /\ v.sensorKey = v.psk /\ v.established
    BY <1>1, <1>2, <2>2 DEF Ending, Same, Sessions
  <2>5. Inv(u) /\ u.life = t.life
    BY <1>2, <2>1, <2>2, <2>3, <2>4, ColdStartInv
  <2> QED
    BY <2>5, SameLife
<1>9. CASE Probed(t) /\ o \in {"ok", "exhausted"} /\ t.open = "FINAL_FIRMWARE"
  <2>1. u = Wait(t, "FINAL_SLEEP")
    BY <1>9 DEF NativeResult
  <2>2. Inv(u) /\ u.life = t.life
    BY <1>1, <1>2, <1>4, <1>9, <2>1, WaitInv
  <2> QED
    BY <2>2, SameLife
<1>10. CASE Probed(t) /\ o \in {"ok", "exhausted"} /\ t.open = "FINAL_SLEEP"
  <2>1. u = OpenDone(t)
    BY <1>10 DEF NativeResult
  <2> QED
    BY <1>1, <1>2, <1>4, <1>10, <2>1, OpenDoneInv DEF Sequel, Granted
<1> QED
  BY <1>5, <1>6, <1>7, <1>8, <1>9, <1>10

\* A command of the open machine itself.
LEMMA OpenInv ==
  ASSUME NEW t, Inv(t), t.sub = "none", t.open \notin {"none", "USB_RESET", "CLAIM_INTERFACE"},
         NEW o \in {"ok", "exhausted", "fault", "cancelled", "gone"}
  PROVE  Sequel(t, OpenResult(t, o))
<1>1. Bringing(t) /\ t \in Sessions /\ t.error \in Error
  BY DEF Inv, Machines, Sessions
<1>2. Ending(t) /\ t.open \notin Delegating
  BY <1>1, EndingIs
<1> DEFINE u == OpenResult(t, o)
<1>3. CASE t.open \in {"UPLOAD_CONFIG", "FINAL_FIRMWARE", "FINAL_SLEEP"}
  BY <1>1, <1>3, NativeInv DEF OpenResult
<1>4. CASE t.open = "SLEEP"
  <2> DEFINE v == [t EXCEPT !.open = "EC_POWER_OFF"]
  <2>1. u = v
    BY <1>4 DEF OpenResult, Wait
  <2>2. v \in Sessions
    BY <1>1 DEF Sessions, OpenState
  <2>3. /\ v.life = t.life /\ v.open = "EC_POWER_OFF" /\ v.error = t.error
        /\ v.sub = "none" /\ v.joined = "none" /\ v.at = "none" /\ v.n = 0
        /\ v.arm = "none" /\ v.base = NoBase /\ v.esd = NoEsd /\ v.gen = t.gen
        /\ v.hw = t.hw /\ v.retained = t.retained
    BY <1>2 DEF Ending, Sessions
  <2> HIDE DEF v
  <2>4. v.life \in {"opening", "reinit"} /\ v.error # "none"
    BY <1>1, <1>4, <2>3 DEF Inv, Machines, Bringing
  <2>5. Children(v) /\ Machines(v)
    BY <2>3, <2>4 DEF Children, Machines, Bringing, Delegating
  <2>6. Ordered(v)
    BY <2>3, <2>4 DEF Ordered, Unclaimed, Confirmed, Handshaken
  <2>7. Published(v)
    BY <1>2, <2>3, <2>4 DEF Ending, Published, Whole, Finishing, Early
  <2> QED
    BY <2>1, <2>2, <2>3, <2>5, <2>6, <2>7, SameLife DEF Inv
<1>5. CASE t.open = "EC_POWER_OFF"
  <2> DEFINE no == FALSE
             v == [t EXCEPT !.powered = no]
  <2>1. u = OpenDone(v)
    BY <1>5 DEF OpenResult
  <2>2. no \in BOOLEAN
    OBVIOUS
  <2> HIDE DEF no
  <2>3. v \in Sessions /\ Same(t, v, {"powered"})
    BY <1>1, <2>2 DEF Sessions, Same
  <2> HIDE DEF v
  <2>4. Ending(v) /\ v.life = t.life /\ v.error = t.error
    BY <1>2, <2>3, EndingOn DEF Same
  <2>5. v.error # "none"
    BY <1>5, <2>4 DEF Inv, Machines
  <2> QED
    BY <2>1, <2>4, <2>5, OpenDoneInv DEF Sequel, Granted
<1>6. CASE t.open \in {"READ_OTP", "READ_PSK_HASH", "WRITE_PSK", "VERIFY_PSK_WRITE"}
  <2>1. t.error = "none" /\ t.claimed /\ t.gen = NoGeneration
    BY <1>6 DEF Inv, Machines, Ordered, Unclaimed, Published, Early
  <2>2. CASE o # "ok"
    <3>1. u = Fail(t, Host(o)) /\ Host(o) \in Error \ {"none"}
      BY <1>6, <2>2 DEF OpenResult, Host, Error
    <3> QED
      BY <1>2, <2>1, <3>1, FailSequel
  <2>3. CASE o = "ok" /\ t.open = "READ_OTP"
    <3> DEFINE imported == t.file = "windows"
               psk == IF t.file = "windows" THEN "windows" ELSE "default"
               v == [t EXCEPT !.psk = psk, !.imported = imported]
    <3>1. u = IF t.file = "broken" THEN Fail(v, "fault") ELSE Wait(v, "READ_PSK_HASH")
      BY <2>3 DEF OpenResult, LoadPsk
    <3>2. imported \in BOOLEAN /\ psk \in {"default", "windows"}
      OBVIOUS
    <3> HIDE DEF imported, psk
    <3>3. v \in Sessions /\ Same(t, v, {"psk", "imported"})
      BY ZenonT(40), <1>1, <3>2 DEF Sessions, Same
    <3> HIDE DEF v
    <3>4. Ending(v) /\ v.life = t.life /\ v.error = "none" /\ v.gen = NoGeneration
      BY <1>2, <2>1, <3>3, EndingOn DEF Same
    <3>5. v.claimed
      BY <1>1, <2>1, <3>3 DEF Same, Sessions
    <3>6. CASE t.file = "broken"
      BY <3>1, <3>4, <3>6, FailSequel DEF Error
    <3>7. CASE t.file # "broken"
      <4>1. Inv(Wait(v, "READ_PSK_HASH")) /\ Wait(v, "READ_PSK_HASH").life = v.life
        BY <3>4, <3>5, WaitInv DEF Confirmed
      <4> QED
        BY <3>1, <3>4, <3>7, <4>1, SameLife
    <3> QED
      BY <3>6, <3>7
  <2>4. CASE o = "ok" /\ t.open = "READ_PSK_HASH"
    <3>1. u = SelectPsk(t)
      BY <2>4 DEF OpenResult
    <3> QED
      BY <1>2, <2>1, <3>1, PskInv
  <2>5. CASE o = "ok" /\ t.open = "WRITE_PSK"
    <3>1. u = Wait(t, "VERIFY_PSK_WRITE")
      BY <2>5 DEF OpenResult
    <3>2. t.verifyPending
      BY <2>5 DEF Inv, Ordered
    <3>3. Inv(u) /\ u.life = t.life
      BY <1>2, <2>1, <3>1, <3>2, WaitInv DEF Confirmed
    <3> QED
      BY <3>3, SameLife
  <2>6. CASE o = "ok" /\ t.open = "VERIFY_PSK_WRITE"
    <3>1. u = VerifyPsk(t)
      BY <2>6 DEF OpenResult
    <3>2. t.verifyPending
      BY <2>6 DEF Inv, Ordered
    <3> QED
      BY <1>2, <2>1, <3>1, <3>2, PskInv
  <2> QED
    BY <1>6, <2>2, <2>3, <2>4, <2>5, <2>6
<1> QED
  BY <1>1, <1>2, <1>3, <1>4, <1>5, <1>6 DEF Sessions, OpenState, Delegating

\* ---------------------------------------------------------------------------
\* What follows a child.

\* A reconstruction starts from nothing the session had.
LEMMA ReinitInv ==
  ASSUME NEW t \in Sessions, t.sub = "none", t.joined = "none", t.at = "none", t.n = 0,
         t.arm = "none", t.base = NoBase, t.esd = NoEsd
  PROVE  LET u == ReinitIdleJoined(t)
         IN  Inv(u) /\ u.life = "reinit" /\ u.sub = "none"
<1> DEFINE no == FALSE
           f == ForgetHardware(t)
           v == [f EXCEPT !.life = "reinit", !.recoveryAttempted = no,
                          !.resetRequired = ~no, !.claimed = no]
<1>1. ReinitIdleJoined(t) = StartOpen(v)
  BY DEF ReinitIdleJoined
<1>2. no \in BOOLEAN /\ ~no
  OBVIOUS
<1> HIDE DEF no
<1>3. f \in Sessions /\ f.gen = NoGeneration /\ f.hw = NoReference
      /\ Same(t, f, {"gen", "retained", "hw"})
  <2>1. f \in Sessions /\ f.gen = NoGeneration /\ f.hw = NoReference
        /\ \A g \in DOMAIN f \ {"gen", "retained", "hw"} : f[g] = t[g]
    BY ForgetFacts
  <2> HIDE DEF f
  <2>2. DOMAIN f = DOMAIN t
    BY <2>1 DEF Sessions
  <2> QED
    BY <2>1, <2>2 DEF Same
<1> HIDE DEF f
<1>4. v \in Sessions
  BY ZenonT(40), <1>2, <1>3 DEF Sessions, Life
<1>5. /\ v.life = "reinit" /\ v.sub = "none" /\ v.joined = "none" /\ v.at = "none"
      /\ v.n = 0 /\ v.arm = "none" /\ v.base = NoBase /\ v.esd = NoEsd
      /\ v.gen = NoGeneration /\ v.hw = NoReference /\ ~v.claimed
  BY <1>2, <1>3 DEF Sessions, Same
<1> HIDE DEF v
<1>6. Ending(v)
  BY <1>4, <1>5, Nothing DEF Ending, Bringing, Whole
<1> QED
  BY <1>1, <1>5, <1>6, StartOpenInv

\* The end of a resume: ready, marked, or rebuilt.
LEMMA WarmInv ==
  ASSUME NEW t, Quiet(t), NEW e \in Error,
         e = "none" => Fit(t) /\ t.claimed /\ t.established /\ t.sensorKey = t.psk
  PROVE  LET u == WarmDone(t, e)
         IN  /\ Inv(u) /\ u.sub = "none"
             /\ u.life = "ready" /\ ~u.needsReinit =>
                  u.claimed /\ u.established /\ u.sensorKey = u.psk
<1> DEFINE u == WarmDone(t, e)
<1>1. CASE e = "none"
  <2> DEFINE no == FALSE
  <2>1. u = Rested(t, no) /\ no \in BOOLEAN
    BY <1>1 DEF WarmDone, Ready, Rested
  <2> HIDE DEF no
  <2>2. /\ Inv(u) /\ u.sub = "none" /\ u.claimed = t.claimed
        /\ u.psk = t.psk /\ u.established = t.established /\ u.sensorKey = t.sensorKey
    BY <1>1, <2>1, ReadyInv
  <2> QED
    BY <1>1, <2>2
<1>2. CASE e \in {"cancelled", "gone"}
  <2>1. u = Rested(t, TRUE)
    BY <1>2 DEF WarmDone, Unready, Rested
  <2>2. Inv(u) /\ u.sub = "none" /\ u.needsReinit
    BY <2>1, ReadyInv
  <2> QED
    BY <2>2
<1>3. CASE e = "fault"
  <2> DEFINE yes == TRUE
             v == [t EXCEPT !.needsReinit = yes]
  <2>1. u = ReinitIdleJoined(v) /\ yes \in BOOLEAN
    BY <1>3 DEF WarmDone
  <2> HIDE DEF yes
  <2>2. v \in Sessions
    BY <2>1 DEF Quiet, Sessions
  <2>3. /\ v.sub = "none" /\ v.joined = "none" /\ v.at = "none" /\ v.n = 0
        /\ v.arm = "none" /\ v.base = NoBase /\ v.esd = NoEsd
    BY DEF Quiet, Sessions
  <2> HIDE DEF v
  <2>4. Inv(u) /\ u.life = "reinit" /\ u.sub = "none"
    BY <2>1, <2>2, <2>3, ReinitInv
  <2> QED
    BY <2>4
<1> QED
  BY <1>1, <1>2, <1>3 DEF Error

\* The session whose child has handed over its result.
Joining(t) == [t EXCEPT !.sub = "none", !.joined = "none"]

LEMMA JoiningIs ==
  ASSUME NEW t, Inv(t), t.sub = "joined"
  PROVE  LET u == Joining(t)
         IN  /\ u \in Sessions /\ Same(t, u, {"sub", "joined"})
             /\ u.sub = "none" /\ u.joined = "none" /\ u.at = "none" /\ u.n = 0
             /\ u.arm = "none" /\ u.base = NoBase /\ u.esd = NoEsd /\ Whole(u)
<1> DEFINE u == [t EXCEPT !.sub = "none", !.joined = "none"]
<1>1. u = Joining(t) /\ t \in Sessions
  BY DEF Joining, Inv
<1>2. u \in Sessions
  BY <1>1 DEF Sessions, Child, Error
<1>3. Same(t, u, {"sub", "joined"}) /\ u.sub = "none" /\ u.joined = "none"
  BY <1>1 DEF Sessions, Same
<1> HIDE DEF u
<1>4. /\ u.at = "none" /\ u.n = 0 /\ u.arm = "none" /\ u.base = NoBase /\ u.esd = NoEsd
      /\ u.gen = t.gen /\ u.hw = t.hw /\ u.retained = t.retained
  BY <1>1, <1>3 DEF Inv, Children, Sessions, Same
<1>5. Whole(u)
  BY <1>4 DEF Inv, Published, Whole
<1> QED
  BY <1>1, <1>2, <1>3, <1>4, <1>5

LEMMA ChildDoneIs ==
  ASSUME NEW t
  PROVE  ChildDone(t) =
    LET e == t.joined
        u == Joining(t)
    IN IF t.life = "warm" THEN WarmDone(u, e)
       ELSE IF t.life = "ready"
       THEN [u EXCEPT !.needsReinit = @ \/ e \notin {"none", "cancelled"}, !.cancelled = FALSE]
       ELSE IF e # "none" THEN Fail(u, e)
       ELSE CASE t.open = "PING" -> StartChild(u, "RESET", "chip", "INITIAL_RESET")
              [] t.open = "RESET" -> Wait(u, "READ_OTP")
              [] t.open = "GTLS" -> Wait([u EXCEPT !.powered = FALSE], "UPLOAD_CONFIG")
              [] t.open = "CAPTURE_REF" ->
                   FinalFirmware([u EXCEPT !.powered = t.gen # NoGeneration])
  BY DEF ChildDone, Joining

\* A child of an open machine that failed fails its owner.
LEMMA ChildFailsInv ==
  ASSUME NEW t, Inv(t), t.sub = "joined", Bringing(t), t.joined # "none"
  PROVE  Sequel(t, ChildDone(t)) /\ ChildDone(t).sub = "none"
<1> DEFINE u == Joining(t)
<1>1. ChildDone(t) = Fail(u, t.joined)
  BY ChildDoneIs DEF Bringing
<1>2. /\ u \in Sessions /\ Same(t, u, {"sub", "joined"})
      /\ u.sub = "none" /\ u.joined = "none" /\ u.at = "none" /\ u.n = 0
      /\ u.arm = "none" /\ u.base = NoBase /\ u.esd = NoEsd /\ Whole(u)
  BY JoiningIs
<1> HIDE DEF u
<1>3. u.life = t.life /\ u.error = t.error /\ t.joined \in Error /\ t.error = "none"
  BY <1>2 DEF Inv, Machines, Delegating, Sessions, Same
<1>4. Ending(u)
  BY <1>2, <1>3 DEF Ending, Bringing
<1> QED
  BY <1>1, <1>3, <1>4, FailInv DEF Sequel, Granted

\* A child of an open machine that ended well.
LEMMA ChildEndsInv ==
  ASSUME NEW t, Inv(t), t.sub = "joined", Bringing(t), t.joined = "none"
  PROVE  LET u == ChildDone(t)
         IN  Sequel(t, u) /\ (u.sub = "joined" => u.joined # "none" /\ Bringing(u))
<1> DEFINE v == Joining(t)
           u == ChildDone(t)
<1>1. /\ v \in Sessions /\ Same(t, v, {"sub", "joined"})
      /\ v.sub = "none" /\ v.joined = "none" /\ v.at = "none" /\ v.n = 0
      /\ v.arm = "none" /\ v.base = NoBase /\ v.esd = NoEsd /\ Whole(v)
  BY JoiningIs
<1>2. t \in Sessions /\ t.open \in Delegating /\ t.error = "none" /\ t.claimed
  BY DEF Inv, Machines, Ordered, Delegating, Unclaimed
<1>3. u = CASE t.open = "PING" -> StartChild(v, "RESET", "chip", "INITIAL_RESET")
            [] t.open = "RESET" -> Wait(v, "READ_OTP")
            [] t.open = "GTLS" -> Wait([v EXCEPT !.powered = FALSE], "UPLOAD_CONFIG")
            [] t.open = "CAPTURE_REF" ->
                 FinalFirmware([v EXCEPT !.powered = t.gen # NoGeneration])
  BY ChildDoneIs DEF Bringing
<1> HIDE DEF v
<1>4. /\ v.life = t.life /\ v.error = "none" /\ v.claimed /\ v.gen = t.gen
      /\ v.hw = t.hw /\ v.fdt = t.fdt /\ v.baseValid = t.baseValid
      /\ v.recoveryPending = t.recoveryPending /\ v.sensorKey = t.sensorKey
      /\ v.psk = t.psk /\ v.established = t.established
  BY <1>1, <1>2 DEF Sessions, Same
<1>5. Ending(v)
  BY <1>1, <1>4 DEF Ending, Bringing
<1>6. t.open # "CAPTURE_REF" => v.gen = NoGeneration
  BY <1>2, <1>4 DEF Inv, Published, Early, Delegating
<1>7. CASE t.open = "PING"
  <2>1. u = StartChild(v, "RESET", "chip", "INITIAL_RESET")
    BY <1>3, <1>7
  <2>2. Inv(u) /\ u.life = t.life /\ (u.sub = "joined" => u.joined # "none")
    BY <1>4, <1>5, <1>6, <1>7, <2>1, StartChildInv
  <2> QED
    BY <2>2, SameLife DEF Bringing
<1>8. CASE t.open = "RESET"
  <2>1. u = Wait(v, "READ_OTP")
    BY <1>3, <1>8
  <2>2. Inv(u) /\ u.life = t.life /\ u.sub = "none"
    BY <1>4, <1>5, <1>6, <1>8, <2>1, WaitInv DEF Confirmed
  <2> QED
    BY <2>2, SameLife
<1>9. CASE t.open = "GTLS"
  <2> DEFINE no == FALSE
             w == [v EXCEPT !.powered = no]
  <2>1. u = Wait(w, "UPLOAD_CONFIG") /\ no \in BOOLEAN
    BY <1>3, <1>9
  <2> HIDE DEF no
  <2>2. w \in Sessions /\ Same(v, w, {"powered"})
    BY <1>1, <2>1 DEF Sessions, Same
  <2> HIDE DEF w
  <2>3. Ending(w) /\ w.life = t.life /\ w.error = "none" /\ w.gen = NoGeneration
    BY <1>4, <1>5, <1>6, <1>9, <2>2, EndingOn DEF Same
  <2>4. t.established /\ t.sensorKey = t.psk
    BY <1>9 DEF Inv, Ordered
  <2>a. v.claimed /\ v.sensorKey = v.psk /\ v.established
    BY <1>1, <1>2, <2>4 DEF Sessions, Same
  <2>5. w.claimed /\ w.sensorKey = w.psk /\ w.established
    BY <1>1, <2>2, <2>a DEF Sessions, Same
  <2>6. Inv(u) /\ u.life = t.life /\ u.sub = "none"
    BY <2>1, <2>3, <2>5, WaitInv
  <2> QED
    BY <2>6, SameLife
<1>10. CASE t.open = "CAPTURE_REF"
  <2> DEFINE b == t.gen # NoGeneration
             w == [v EXCEPT !.powered = b]
  <2>1. u = FinalFirmware(w) /\ b \in BOOLEAN
    BY <1>3, <1>10
  <2> HIDE DEF b
  <2>2. w \in Sessions /\ Same(v, w, {"powered"})
    BY <1>1, <2>1 DEF Sessions, Same
  <2> HIDE DEF w
  <2>3. Ending(w) /\ w.life = t.life /\ w.error = "none"
    BY <1>4, <1>5, <2>2, EndingOn DEF Same
  <2>4. t.established /\ t.sensorKey = t.psk /\ Fit(t)
    BY <1>10 DEF Inv, Ordered, Confirmed, Handshaken, Published, Finishing
  <2>a. v.claimed /\ v.sensorKey = v.psk /\ v.established
    BY <1>1, <1>2, <2>4 DEF Sessions, Same
  <2>5. w.claimed /\ w.sensorKey = w.psk /\ w.established
    BY <1>1, <2>2, <2>a DEF Sessions, Same
  <2>6. w.gen = t.gen /\ w.hw = t.hw /\ w.fdt = t.fdt /\ w.baseValid = t.baseValid
        /\ w.recoveryPending = t.recoveryPending
    BY <1>1, <1>4, <2>2 DEF Sessions, Same
  <2>7. Fit(w)
    BY <2>4, <2>6 DEF Fit, Sound
  <2>8. CASE Probed(w)
    <3>1. u = Wait(w, "FINAL_FIRMWARE")
      BY <2>1, <2>8 DEF FinalFirmware
    <3>2. Inv(u) /\ u.life = t.life /\ u.sub = "none"
      BY <2>3, <2>5, <2>7, <3>1, WaitInv
    <3> QED
      BY <3>2, SameLife
  <2>9. CASE ~Probed(w)
    <3>1. u = Fail(w, ProbeError(w))
      BY <2>1, <2>9 DEF FinalFirmware
    <3>2. u.sub = "none" /\ Sequel(t, u)
      BY <2>3, <3>1, FailInv, ProbeErrorIs DEF Sequel, Granted
    <3> QED
      BY <3>2
  <2> QED
    BY <2>8, <2>9
<1> QED
  BY <1>2, <1>7, <1>8, <1>9, <1>10 DEF Delegating

LEMMA ChildDoneInv ==
  ASSUME NEW t, Inv(t), t.sub = "joined"
  PROVE  LET u == ChildDone(t)
         IN  Sequel(t, u) /\ (u.sub = "joined" => u.joined # "none" /\ Bringing(u))
<1> DEFINE v == Joining(t)
           u == ChildDone(t)
<1>1. /\ v \in Sessions /\ Same(t, v, {"sub", "joined"})
      /\ v.sub = "none" /\ v.joined = "none" /\ v.at = "none" /\ v.n = 0
      /\ v.arm = "none" /\ v.base = NoBase /\ v.esd = NoEsd /\ Whole(v)
  BY JoiningIs
<1>2. t \in Sessions /\ t.joined \in Error
  BY DEF Inv, Sessions
<1>3. CASE t.life = "warm"
  <2>1. u = WarmDone(v, t.joined)
    BY <1>3, ChildDoneIs
  <2> HIDE DEF v
  <2>2. t.open = "none" /\ t.error = "none" /\ t.claimed /\ Fit(t)
    BY <1>3 DEF Inv, Machines, Bringing, Ordered, Published, Finishing
  <2>3. t.joined = "none" => t.established /\ t.sensorKey = t.psk
    BY <1>3 DEF Inv, Ordered
  <2>4. Quiet(v)
    BY <1>1, <1>2, <2>2 DEF Quiet, Sessions, Same
  <2>5. v.gen = t.gen /\ v.hw = t.hw /\ v.fdt = t.fdt /\ v.baseValid = t.baseValid
        /\ v.recoveryPending = t.recoveryPending
    BY <1>1, <1>2 DEF Sessions, Same
  <2>6. Fit(v)
    BY <2>2, <2>5 DEF Fit, Sound
  <2>7. v.claimed /\ (t.joined = "none" => v.established /\ v.sensorKey = v.psk)
    BY <1>1, <1>2, <2>2, <2>3 DEF Sessions, Same
  <2>8. Inv(u) /\ u.sub = "none" /\ (u.life = "ready" /\ ~u.needsReinit =>
                  u.claimed /\ u.established /\ u.sensorKey = u.psk)
    BY <1>2, <2>1, <2>4, <2>6, <2>7, WarmInv
  <2> QED
    BY <2>8 DEF Sequel, Granted
<1>4. CASE t.life = "ready"
  <2> DEFINE b == v.needsReinit \/ t.joined \notin {"none", "cancelled"}
             no == FALSE
             w == [v EXCEPT !.needsReinit = b, !.cancelled = no]
  <2>1. u = w
    BY <1>1, <1>4, ChildDoneIs DEF Sessions
  <2> HIDE DEF v
  <2>2. b \in BOOLEAN /\ (~b => ~v.needsReinit) /\ no \in BOOLEAN
    BY <1>1 DEF Sessions
  <2> HIDE DEF b, no
  <2>3. w \in Sessions /\ Same(v, w, {"needsReinit", "cancelled"}) /\ w.needsReinit = b
    BY ZenonT(40), <1>1, <2>2 DEF Sessions, Same
  <2> HIDE DEF w
  <2>4. t.open = "none" /\ t.error = "none" /\ (~t.needsReinit => Fit(t))
    BY <1>4 DEF Inv, Machines, Bringing, Published, Finishing
  <2>5. /\ w.life = "ready" /\ w.open = "none" /\ w.error = "none" /\ w.sub = "none"
        /\ w.joined = "none" /\ w.at = "none" /\ w.n = 0 /\ w.arm = "none"
        /\ w.base = NoBase /\ w.esd = NoEsd
    BY <1>1, <1>2, <1>4, <2>3, <2>4 DEF Sessions, Same
  <2>6. /\ w.gen = t.gen /\ w.hw = t.hw /\ w.fdt = t.fdt /\ w.baseValid = t.baseValid
        /\ w.recoveryPending = t.recoveryPending /\ w.retained = t.retained
        /\ v.needsReinit = t.needsReinit
    BY <1>1, <1>2, <2>3 DEF Sessions, Same
  <2>7. Children(w)
    BY <2>5 DEF Children
  <2>8. Machines(w)
    BY <2>5 DEF Machines, Bringing, Delegating
  <2>9. Ordered(w)
    BY <2>5 DEF Ordered, Unclaimed, Confirmed, Handshaken
  <2>10. ~w.needsReinit => Fit(t)
    BY <2>2, <2>3, <2>4, <2>6
  <2>11. Published(w)
    BY <2>5, <2>6, <2>10 DEF Inv, Published, Whole, Finishing, Fit, Sound, Early
  <2>12. Inv(u) /\ u.life = t.life /\ u.sub = "none"
    BY <1>4, <2>1, <2>3, <2>5, <2>7, <2>8, <2>9, <2>11 DEF Inv
  <2> QED
    BY <2>12, SameLife
<1>5. CASE t.life \notin {"warm", "ready"}
  <2>1. Bringing(t)
    BY <1>2, <1>5 DEF Inv, Machines, Bringing, Sessions, Life
  <2>2. CASE t.joined = "none"
    BY <2>1, <2>2, ChildEndsInv
  <2>3. CASE t.joined # "none"
    BY <2>1, <2>3, ChildFailsInv
  <2> QED
    BY <2>2, <2>3
<1> QED
  BY <1>3, <1>4, <1>5

\* A step that leaves nothing to join.
Good(t, u) == Inv(u) /\ Granted(t, u) /\ u.sub # "joined"

LEMMA SettleGood ==
  ASSUME NEW r, NEW t, Sequel(r, t)
  PROVE  Good(r, Settle(t))
<1>1. CASE t.sub # "joined"
  <2>1. Settle(t) = t
    BY <1>1 DEF Settle
  <2> QED
    BY <1>1, <2>1 DEF Sequel, Good
<1>2. CASE t.sub = "joined"
  <2> DEFINE u == ChildDone(t)
  <2>1. Settle(t) = IF u.sub = "joined" THEN ChildDone(u) ELSE u
    BY <1>2 DEF Settle
  <2>2. Sequel(t, u) /\ (u.sub = "joined" => u.joined # "none" /\ Bringing(u))
        /\ t.life = r.life
    BY <1>2, ChildDoneInv DEF Sequel
  <2> HIDE DEF u
  <2>3. CASE u.sub # "joined"
    BY <2>1, <2>2, <2>3 DEF Sequel, Good, Granted
  <2>4. CASE u.sub = "joined"
    <3>1. Sequel(u, ChildDone(u)) /\ ChildDone(u).sub = "none" /\ u.life = t.life
      BY <2>2, <2>4, ChildFailsInv DEF Sequel
    <3> QED
      BY <2>1, <2>2, <2>4, <3>1 DEF Sequel, Good, Granted
  <2> QED
    BY <2>3, <2>4
<1> QED
  BY <1>1, <1>2

\* ---------------------------------------------------------------------------
\* The names of tokens and identities.

LEMMA NamedIs ==
  ASSUME NEW t \in Sessions
  PROVE  LET u == Named(t)
         IN  /\ u \in Sessions /\ Same(t, u, {"hw", "gen", "fdt", "base"})
             /\ Same(t.hw, u.hw, {"ref", "id"}) /\ Same(t.gen, u.gen, {"setup", "id"})
             /\ Same(t.base, u.base, {"first"})
             /\ u.hw.ref = None <=> t.hw.ref = None
             /\ u.gen.setup = None <=> t.gen.setup = None
             /\ u.base.first = None <=> t.base.first = None
             /\ u.hw.id = None <=> t.hw.id = None
             /\ u.gen.id = None <=> t.gen.id = None
             /\ u.gen.id = u.hw.id <=> t.gen.id = t.hw.id
             /\ t.gen.setup = t.hw.ref => u.gen.setup = u.hw.ref
             /\ t.fdt = t.hw.ref => u.fdt = u.hw.ref
             /\ t.gen = NoGeneration => u.gen = NoGeneration
             /\ t.base = NoBase => u.base = NoBase
<1> DEFINE token(k) == IF k = None THEN None
                       ELSE IF k = t.hw.ref THEN 1
                       ELSE IF k = t.gen.setup THEN 2
                       ELSE IF k = t.fdt THEN 3
                       ELSE 4
           id(k) == IF k = None THEN None ELSE IF k = t.hw.id THEN 1 ELSE 2
           ref == token(t.hw.ref)
           shown == token(t.gen.setup)
           fdt == token(t.fdt)
           first == token(t.base.first)
           refId == id(t.hw.id)
           genId == id(t.gen.id)
           hw == [t.hw EXCEPT !.ref = ref, !.id = refId]
           published == [t.gen EXCEPT !.setup = shown, !.id = genId]
           base == [t.base EXCEPT !.first = first]
           u == [t EXCEPT !.hw = hw, !.gen = published, !.fdt = fdt, !.base = base]
<1>1. t.hw \in References /\ t.gen \in Generations /\ t.base \in Bases
  BY DEF Sessions
<1>2. Named(t) = [t EXCEPT !.hw.ref = ref, !.gen.setup = shown, !.fdt = fdt,
                           !.base.first = first, !.hw.id = refId, !.gen.id = genId]
  BY <1>1 DEF Named, Sessions, References, Generations, Bases
<1>3. /\ ref \in Token /\ shown \in Token /\ fdt \in Token /\ first \in Token
      /\ refId \in 0 .. 3 /\ genId \in 0 .. 3
  BY DEF Token, None
<1>4. /\ ref = None <=> t.hw.ref = None
      /\ shown = None <=> t.gen.setup = None
      /\ first = None <=> t.base.first = None
      /\ refId = None <=> t.hw.id = None
      /\ genId = None <=> t.gen.id = None
      /\ t.gen.setup = t.hw.ref => shown = ref
      /\ t.fdt = t.hw.ref => fdt = ref
  BY DEF None
<1>5. genId = refId <=> t.gen.id = t.hw.id
  BY DEF None
<1> HIDE DEF ref, shown, fdt, first, refId, genId
<1>6. Named(t) = u
  BY <1>1, <1>2 DEF Sessions
<1>7. hw \in References /\ published \in Generations /\ base \in Bases
  BY <1>1, <1>3 DEF References, Generations, Bases
<1>8. /\ hw.ref = ref /\ hw.id = refId /\ published.setup = shown /\ published.id = genId
      /\ base.first = first
      /\ Same(t.hw, hw, {"ref", "id"}) /\ Same(t.gen, published, {"setup", "id"})
      /\ Same(t.base, base, {"first"})
  BY <1>1 DEF References, Generations, Bases, Same
<1>a. t.gen = NoGeneration => published = NoGeneration
  <2> HAVE t.gen = NoGeneration
  <2>1. t.gen.id = None /\ t.gen.setup = None
    BY DEF NoGeneration
  <2>2. published.id = t.gen.id /\ published.setup = t.gen.setup
    BY <1>4, <1>8, <2>1
  <2>3. published.ready = t.gen.ready /\ published.refresh = t.gen.refresh
    BY <1>1 DEF Generations
  <2> HIDE DEF published
  <2>4. published = t.gen
    BY <1>1, <1>7, <2>2, <2>3 DEF Generations
  <2> QED
    BY <2>4
<1>b. t.base = NoBase => base = NoBase
  <2> HAVE t.base = NoBase
  <2>1. t.base.first = None
    BY DEF NoBase
  <2>2. base.first = t.base.first
    BY <1>4, <1>8, <2>1
  <2>3. /\ base.forced = t.base.forced /\ base.reason = t.base.reason
        /\ base.leave = t.base.leave /\ base.error = t.base.error
    BY <1>1 DEF Bases
  <2> HIDE DEF base
  <2>4. base = t.base
    BY <1>1, <1>7, <2>2, <2>3 DEF Bases
  <2> QED
    BY <2>4
<1> HIDE DEF hw, published, base
<1>9. u \in Sessions
  BY <1>3, <1>7 DEF Sessions
<1>10. /\ u.hw = hw /\ u.gen = published /\ u.fdt = fdt /\ u.base = base
       /\ Same(t, u, {"hw", "gen", "fdt", "base"})
  BY DEF Sessions, Same
<1> HIDE DEF u
<1> QED
  BY <1>4, <1>5, <1>6, <1>8, <1>9, <1>10, <1>a, <1>b

LEMMA NamedGood ==
  ASSUME NEW r, NEW t, Good(r, t)
  PROVE  Good(r, Named(t))
<1> DEFINE u == Named(t)
<1>1. t \in Sessions /\ Inv(t)
  BY DEF Good, Inv
<1>2. /\ u \in Sessions /\ Same(t, u, {"hw", "gen", "fdt", "base"})
      /\ Same(t.hw, u.hw, {"ref", "id"}) /\ Same(t.gen, u.gen, {"setup", "id"})
      /\ Same(t.base, u.base, {"first"})
  BY <1>1, NamedIs
<1>3. /\ u.hw.ref = None <=> t.hw.ref = None
      /\ u.gen.setup = None <=> t.gen.setup = None
      /\ u.base.first = None <=> t.base.first = None
      /\ u.hw.id = None <=> t.hw.id = None
      /\ u.gen.id = None <=> t.gen.id = None
      /\ u.gen.id = u.hw.id <=> t.gen.id = t.hw.id
      /\ t.gen.setup = t.hw.ref => u.gen.setup = u.hw.ref
      /\ t.fdt = t.hw.ref => u.fdt = u.hw.ref
  BY <1>1, NamedIs
<1> HIDE DEF u
<1>4. /\ u.life = t.life /\ u.open = t.open /\ u.error = t.error /\ u.sub = t.sub
      /\ u.joined = t.joined /\ u.at = t.at /\ u.n = t.n /\ u.arm = t.arm
      /\ u.esd = t.esd /\ u.claimed = t.claimed /\ u.verifyPending = t.verifyPending
      /\ u.sensorKey = t.sensorKey /\ u.psk = t.psk /\ u.established = t.established
  BY <1>1, <1>2 DEF Same, Sessions
<1>5. /\ u.retained = t.retained /\ u.baseValid = t.baseValid
      /\ u.recoveryPending = t.recoveryPending /\ u.needsReinit = t.needsReinit
  BY <1>1, <1>2 DEF Same, Sessions
<1>6. u.hw.pending = t.hw.pending
  BY <1>1, <1>2 DEF Same, Sessions, References
<1>7. u.base.forced = t.base.forced /\ u.base.error = t.base.error
  BY <1>1, <1>2 DEF Same, Sessions, Bases
<1>8. t.gen = NoGeneration => u.gen = NoGeneration
  BY <1>1, NamedIs DEF u
<1>9. u.gen = NoGeneration => t.gen = NoGeneration
  BY <1>1, <1>3, Nothing DEF Inv, Published, Whole
<1>10. t.base = NoBase => u.base = NoBase
  BY <1>1, NamedIs DEF u
<1>11. Children(u)
  BY <1>1, <1>4, <1>7, <1>10 DEF Inv, Children
<1>12. Machines(u)
  BY <1>1, <1>4 DEF Inv, Machines, Bringing
<1>13. Ordered(u)
  BY <1>1, <1>4 DEF Inv, Ordered
<1>14. Whole(u)
  BY <1>1, <1>3, <1>5, <1>6, <1>8, <1>9 DEF Inv, Published, Whole
<1>15. Sound(t) => Sound(u)
  BY <1>3, <1>5 DEF Sound
<1>16. Fit(t) => Fit(u)
  BY <1>5, <1>9, <1>15 DEF Fit
<1>17. Finishing(u) => Finishing(t)
  BY <1>4, <1>5 DEF Finishing
<1>18. Published(u)
  BY <1>1, <1>3, <1>4, <1>7, <1>8, <1>14, <1>15, <1>16, <1>17 DEF Inv, Published
<1>19. Inv(u)
  BY <1>2, <1>11, <1>12, <1>13, <1>18 DEF Inv
<1> QED
  BY <1>4, <1>5, <1>19 DEF Good, Granted, u

\* ---------------------------------------------------------------------------
\* Arming and repair.

\* A repair changes nothing of a session but its own machine and the mark.
LEMMA RepairOn ==
  ASSUME NEW t, Inv(t), t.life = "ready", NEW u \in Sessions,
         Same(t, u, {"sub", "at", "n", "arm", "esd", "needsReinit", "joined"}),
         t.base = NoBase, u.sub \in {"arm", "esd", "joined"}, Children(u),
         u.joined # "none" => u.sub = "joined", ~u.needsReinit => ~t.needsReinit
  PROVE  Inv(u) /\ u.life = t.life
<1>1. t \in Sessions
  BY DEF Inv
<1>2. /\ u.life = "ready" /\ u.open = t.open /\ u.error = t.error /\ u.base = NoBase
      /\ u.claimed = t.claimed /\ u.verifyPending = t.verifyPending
      /\ u.sensorKey = t.sensorKey /\ u.psk = t.psk /\ u.established = t.established
  BY <1>1 DEF Same, Sessions
<1>3. /\ u.gen = t.gen /\ u.hw = t.hw /\ u.retained = t.retained /\ u.fdt = t.fdt
      /\ u.baseValid = t.baseValid /\ u.recoveryPending = t.recoveryPending
  BY <1>1 DEF Same, Sessions
<1>4. t.open = "none" /\ t.error = "none"
  BY DEF Inv, Machines, Bringing
<1>5. Machines(u)
  BY <1>2, <1>4 DEF Machines, Bringing
<1>6. Ordered(u)
  BY <1>2, <1>4 DEF Inv, Ordered, Unclaimed, Confirmed, Handshaken
<1>7. Finishing(u) => Fit(t)
  BY <1>2, <1>4 DEF Inv, Published, Finishing
<1>8. Published(u)
  BY <1>2, <1>3, <1>4, <1>7 DEF Inv, Published, Whole, Fit, Sound, Early
<1> QED
  BY <1>2, <1>5, <1>6, <1>8 DEF Inv

LEMMA RepairJoinedInv ==
  ASSUME NEW t \in Sessions, NEW r, Inv(r), r.life = "ready", r.base = NoBase,
         Same(r, t, {"sub", "at", "n", "arm", "esd", "needsReinit"}),
         ~t.needsReinit => ~r.needsReinit, NEW e \in Error
  PROVE  LET u == RepairJoined(t, e) IN Inv(u) /\ u.life = r.life
<1> DEFINE u == [t EXCEPT !.sub = "joined", !.at = "none", !.arm = "none", !.n = 0,
                          !.esd = NoEsd, !.joined = e]
<1>1. RepairJoined(t, e) = u
  BY DEF RepairJoined
<1>a. NoEsd \in [notice : BOOLEAN]
  BY DEF NoEsd
<1>2. u \in Sessions
  <2> DEFINE v == [t EXCEPT !.sub = "joined", !.at = "none", !.arm = "none"]
             w == [v EXCEPT !.n = 0, !.esd = NoEsd, !.joined = e]
  <2>1. v \in Sessions
    <3>1. /\ "joined" \in Child /\ "none" \in ChildState
          /\ "none" \in {"none", "FIRST", "CONFIG", "REPEAT"}
      BY DEF Child, ChildState
    <3> DEFINE a == [t EXCEPT !.sub = "joined"]
               b == [a EXCEPT !.at = "none"]
    <3>2. a \in Sessions
      BY <3>1 DEF Sessions
    <3> HIDE DEF a
    <3>3. b \in Sessions
      BY <3>1, <3>2 DEF Sessions
    <3> HIDE DEF b
    <3>4. [b EXCEPT !.arm = "none"] \in Sessions
      BY <3>1, <3>3 DEF Sessions
    <3>5. v = [b EXCEPT !.arm = "none"]
      BY DEF a, b
    <3> QED
      BY <3>4, <3>5
  <2> HIDE DEF v
  <2>2. w \in Sessions
    BY <1>a, <2>1 DEF Sessions
  <2> QED
    BY <2>2 DEF v
<1>3. /\ Same(t, u, {"sub", "at", "n", "arm", "esd", "joined"}) /\ u.sub = "joined"
      /\ u.at = "none" /\ u.n = 0 /\ u.arm = "none" /\ u.esd = NoEsd
  BY DEF Sessions, Same
<1> HIDE DEF u
<1>4. Same(r, u, {"sub", "at", "n", "arm", "esd", "needsReinit", "joined"})
      /\ u.base = NoBase /\ u.needsReinit = t.needsReinit
  BY <1>3 DEF Inv, Sessions, Same
<1>5. Children(u)
  BY <1>3, <1>4 DEF Children
<1> QED
  BY <1>1, <1>2, <1>3, <1>4, <1>5, RepairOn

LEMMA NoBaseIs ==
  ASSUME NEW t, Inv(t), t.arm # "none" \/ t.sub = "esd"
  PROVE  /\ t \in Sessions /\ t.life = "ready" /\ t.sub \in {"arm", "esd"}
         /\ t.base = NoBase /\ t.joined = "none"
  BY DEF Inv, Children, Machines

\* A step of an arm, its own or the one that ends a repair.
LEMMA ArmInv ==
  ASSUME NEW t, Inv(t), t.arm # "none",
         NEW o \in {"ok", "rejected", "exhausted", "fault", "cancelled", "gone"}
  PROVE  LET u == ArmResult(t, o) IN Inv(u) /\ u.life = t.life
<1> DEFINE arm == ArmNext(t, o)
           b == t.needsReinit \/ o \in {"fault", "gone"}
           v == [t EXCEPT !.arm = arm, !.needsReinit = b]
<1>1. /\ t \in Sessions /\ t.life = "ready" /\ t.sub \in {"arm", "esd"}
      /\ t.base = NoBase /\ t.joined = "none"
  BY NoBaseIs
<1>2. ArmResult(t, o) = IF v.arm # "none" THEN v ELSE RepairJoined(v, ArmOutcome(t, o))
  BY <1>1 DEF ArmResult, Sessions
<1>3. arm \in {"none", "CONFIG", "REPEAT"} /\ b \in BOOLEAN /\ (~b => ~t.needsReinit)
  BY <1>1 DEF ArmNext, Sessions
<1>4. ArmOutcome(t, o) \in Error
  BY DEF ArmOutcome, Error
<1> HIDE DEF arm, b
<1>5. v \in Sessions /\ Same(t, v, {"arm", "needsReinit"}) /\ v.arm = arm
      /\ v.needsReinit = b
  BY ZenonT(40), <1>1, <1>3 DEF Sessions, Same
<1> HIDE DEF v
<1>6. CASE v.arm # "none"
  <2>1. /\ v.sub = t.sub /\ v.base = NoBase /\ v.joined = "none" /\ v.life = "ready"
        /\ v.at = t.at /\ v.n = t.n /\ v.esd = t.esd
    BY <1>1, <1>5 DEF Sessions, Same
  <2>2. Children(v)
    BY <1>1, <1>3, <1>5, <1>6, <2>1 DEF Inv, Children
  <2>3. Same(t, v, {"sub", "at", "n", "arm", "esd", "needsReinit", "joined"})
    BY <1>5 DEF Same
  <2>4. Inv(v) /\ v.life = t.life
    BY <1>1, <1>3, <1>5, <2>1, <2>2, <2>3, RepairOn
  <2> QED
    BY <1>2, <1>6, <2>4
<1>7. CASE v.arm = "none"
  <2>1. Same(t, v, {"sub", "at", "n", "arm", "esd", "needsReinit"})
    BY <1>5 DEF Same
  <2>2. ArmResult(t, o) = RepairJoined(v, ArmOutcome(t, o))
    BY <1>2, <1>7
  <2> QED
    BY <1>1, <1>3, <1>4, <1>5, <2>1, <2>2, RepairJoinedInv
<1> QED
  BY <1>6, <1>7

\* A step of the repair moves on to its next command.
LEMMA EsdMoved ==
  ASSUME NEW t, Inv(t), t.sub = "esd", t.arm = "none", NEW u \in Sessions,
         Same(t, u, {"at", "n", "arm"}), u.n <= EsdResets,
         \/ u.at \in EsdState /\ u.arm = "none"
         \/ u.at = "ARM" /\ u.arm = "FIRST"
  PROVE  Inv(u) /\ u.life = t.life
<1>1. /\ t \in Sessions /\ t.life = "ready" /\ t.base = NoBase /\ t.joined = "none"
  BY NoBaseIs
<1>2. /\ u.sub = "esd" /\ u.base = NoBase /\ u.joined = "none" /\ u.life = "ready"
      /\ u.esd = t.esd /\ u.needsReinit = t.needsReinit
  BY <1>1 DEF Sessions, Same
<1>3. Children(u)
  BY <1>2 DEF Children, EsdState
<1>4. Same(t, u, {"sub", "at", "n", "arm", "esd", "needsReinit", "joined"})
  BY DEF Same
<1> QED
  BY <1>1, <1>2, <1>3, <1>4, RepairOn

LEMMA EsdInv ==
  ASSUME NEW t, Inv(t), t.sub = "esd", t.arm = "none",
         NEW o \in {"ok", "rejected", "exhausted", "fault", "cancelled", "gone"}
  PROVE  LET u == EsdResult(t, o) IN Inv(u) /\ u.life = t.life
<1>1. /\ t \in Sessions /\ t.life = "ready" /\ t.base = NoBase /\ t.joined = "none"
      /\ t.at \in EsdState /\ t.n <= EsdResets /\ t.n \in Nat
  BY NoBaseIs DEF Inv, Children, Sessions
<1>2. ASSUME NEW a \in EsdState
      PROVE  LET u == [t EXCEPT !.at = a] IN Inv(u) /\ u.life = t.life
  <2> DEFINE u == [t EXCEPT !.at = a]
  <2>1. u \in Sessions /\ Same(t, u, {"at", "n", "arm"}) /\ u.at = a /\ u.n = t.n
        /\ u.arm = "none"
    BY <1>1 DEF Sessions, ChildState, EsdState, Same
  <2> HIDE DEF u
  <2> QED
    BY <1>1, <2>1, EsdMoved DEF u
<1> DEFINE u == EsdResult(t, o)
<1>3. CASE t.at = "RETRY" /\ t.n < EsdResets
  <2> DEFINE k == t.n + 1
             v == [t EXCEPT !.at = "RESET", !.n = k]
  <2>1. u = v
    BY <1>1, <1>3 DEF EsdResult, EsdRetry, EsdReset, Sessions
  <2>2. k \in Nat /\ k <= EsdResets
    BY <1>1, <1>3, RepairAssumption
  <2> HIDE DEF k
  <2>3. v \in Sessions /\ Same(t, v, {"at", "n", "arm"}) /\ v.at = "RESET" /\ v.n = k
        /\ v.arm = "none"
    BY ZenonT(40), <1>1, <2>2 DEF Sessions, ChildState, Same
  <2> HIDE DEF v
  <2> QED
    BY <2>1, <2>2, <2>3, EsdMoved DEF EsdState
<1>4. CASE t.at = "RETRY" /\ ~(t.n < EsdResets)
  <2>1. u = [t EXCEPT !.at = "EXHAUSTED_RESET"]
    BY <1>4 DEF EsdResult, EsdRetry
  <2> QED
    BY <1>2, <2>1 DEF EsdState
<1>5. ASSUME NEW e \in Error
      PROVE  Inv(RepairJoined(t, e)) /\ RepairJoined(t, e).life = t.life
  <2>1. Same(t, t, {"sub", "at", "n", "arm", "esd", "needsReinit"})
    BY DEF Same
  <2> QED
    BY <1>1, <2>1, RepairJoinedInv
<1>6. CASE t.at # "RETRY" /\ o \notin {"ok", "rejected", "exhausted"}
  <2>1. u = RepairJoined(t, o) /\ o \in Error
    BY <1>6 DEF EsdResult, Error
  <2> QED
    BY <1>5, <2>1
<1>7. CASE t.at \in {"RESET", "RESET_AGAIN", "CHIP", "FAILED_READ_RESET"}
           /\ o \in {"ok", "rejected", "exhausted"}
  <2>1. CASE t.at = "RESET"
    <3> DEFINE a == IF t.esd.notice THEN "CHIP"
                    ELSE IF o = "rejected" THEN "RESET_AGAIN" ELSE "RETRY"
    <3>1. u = [t EXCEPT !.at = a]
      BY <1>7, <2>1 DEF EsdResult
    <3>2. a \in EsdState
      BY DEF EsdState
    <3> HIDE DEF a
    <3> QED
      BY <1>2, <3>1, <3>2
  <2>2. CASE t.at = "RESET_AGAIN"
    <3>1. u = [t EXCEPT !.at = "CHIP"]
      BY <1>7, <2>2 DEF EsdResult
    <3> QED
      BY <1>2, <3>1 DEF EsdState
  <2>3. CASE t.at = "CHIP"
    <3> DEFINE a == IF o = "ok" THEN "CONFIG"
                    ELSE IF t.esd.notice /\ o = "exhausted" THEN "FAILED_READ_RESET"
                    ELSE "RETRY"
    <3>1. u = [t EXCEPT !.at = a]
      BY <1>7, <2>3 DEF EsdResult, EsdChip
    <3>2. a \in EsdState
      BY DEF EsdState
    <3> HIDE DEF a
    <3> QED
      BY <1>2, <3>1, <3>2
  <2>4. CASE t.at = "FAILED_READ_RESET"
    <3>1. u = [t EXCEPT !.at = "RETRY"]
      BY <1>7, <2>4 DEF EsdResult
    <3> QED
      BY <1>2, <3>1 DEF EsdState
  <2> QED
    BY <1>7, <2>1, <2>2, <2>3, <2>4
<1>8. CASE t.at = "CONFIG" /\ o \in {"ok", "rejected", "exhausted"}
  <2> DEFINE v == [t EXCEPT !.at = "ARM", !.arm = "FIRST"]
  <2>1. u = v
    BY <1>8 DEF EsdResult, ArmStart
  <2>2. v \in Sessions /\ Same(t, v, {"at", "n", "arm"}) /\ v.at = "ARM" /\ v.n = t.n
        /\ v.arm = "FIRST"
    BY ZenonT(40), <1>1 DEF Sessions, ChildState, Same
  <2> HIDE DEF v
  <2> QED
    BY <1>1, <2>1, <2>2, EsdMoved
<1>9. CASE t.at = "EXHAUSTED_RESET" /\ o \in {"ok", "rejected", "exhausted"}
  <2>1. u = RepairJoined(t, "none")
    BY <1>9 DEF EsdResult
  <2> QED
    BY <1>5, <2>1 DEF Error
<1> QED
  BY <1>1, <1>3, <1>4, <1>6, <1>7, <1>8, <1>9 DEF EsdState

\* The coordinator starts an arm, or a repair.
LEMMA StartArmInv ==
  ASSUME NEW t, Inv(t), t.life = "ready", t.sub = "none"
  PROVE  LET u == ArmStart([t EXCEPT !.sub = "arm"])
         IN  Inv(u) /\ u.life = t.life /\ u.sub # "joined"
<1> DEFINE u == [t EXCEPT !.sub = "arm", !.arm = "FIRST"]
<1>1. ArmStart([t EXCEPT !.sub = "arm"]) = u /\ t \in Sessions
  BY DEF ArmStart, Inv
<1>2. u \in Sessions /\ Same(t, u, {"sub", "arm"}) /\ u.sub = "arm" /\ u.arm = "FIRST"
  BY ZenonT(40), <1>1 DEF Sessions, Child, Same
<1> HIDE DEF u
<1>3. /\ u.base = t.base /\ u.joined = t.joined /\ u.life = "ready" /\ u.at = t.at
      /\ u.n = t.n /\ u.esd = t.esd /\ u.needsReinit = t.needsReinit
  BY <1>1, <1>2 DEF Sessions, Same
<1>4. t.base = NoBase /\ t.joined = "none" /\ t.at = "none" /\ t.n = 0 /\ t.esd = NoEsd
  BY DEF Inv, Children, Machines
<1>5. Children(u)
  BY <1>2, <1>3, <1>4 DEF Children
<1>6. Same(t, u, {"sub", "at", "n", "arm", "esd", "needsReinit", "joined"})
  BY <1>2 DEF Same
<1> QED
  BY <1>1, <1>2, <1>3, <1>4, <1>5, <1>6, RepairOn

LEMMA StartEsdInv ==
  ASSUME NEW t, Inv(t), t.life = "ready", t.sub = "none", NEW notice \in BOOLEAN
  PROVE  LET u == EsdStart(t, notice) IN Inv(u) /\ u.life = t.life /\ u.sub # "joined"
<1> DEFINE esd == [notice |-> notice]
           k == t.n + 1
           u == [t EXCEPT !.sub = "esd", !.esd = esd, !.at = "RESET", !.n = k]
<1>1. t.base = NoBase /\ t.joined = "none" /\ t.at = "none" /\ t.n = 0 /\ t.esd = NoEsd
      /\ t \in Sessions /\ t.arm = "none"
  BY DEF Inv, Children, Machines
<1>2. EsdStart(t, notice) = u
  BY <1>1 DEF EsdStart, EsdReset, Sessions
<1>3. esd \in [notice : BOOLEAN] /\ k \in Nat /\ k <= EsdResets
  BY <1>1, RepairAssumption
<1> HIDE DEF esd, k
<1>4. u \in Sessions /\ Same(t, u, {"sub", "esd", "at", "n"}) /\ u.sub = "esd"
      /\ u.at = "RESET" /\ u.n = k
  BY ZenonT(40), <1>1, <1>3 DEF Sessions, Child, ChildState, Same
<1> HIDE DEF u
<1>5. /\ u.base = NoBase /\ u.joined = "none" /\ u.life = "ready" /\ u.arm = "none"
      /\ u.needsReinit = t.needsReinit
  BY <1>1, <1>4 DEF Sessions, Same
<1>6. Children(u)
  BY <1>3, <1>4, <1>5 DEF Children, EsdState
<1>7. Same(t, u, {"sub", "at", "n", "arm", "esd", "needsReinit", "joined"})
  BY <1>4 DEF Same
<1> QED
  BY <1>1, <1>2, <1>4, <1>5, <1>6, <1>7, RepairOn

\* ---------------------------------------------------------------------------
\* The steps.

\* Marks, keys and files from outside change nothing else.
LEMMA Touched ==
  ASSUME NEW t, Inv(t), NEW u \in Sessions,
         Same(t, u, {"cancelled", "removed", "needsReinit", "sensorKey", "file"}),
         ~u.needsReinit => ~t.needsReinit,
         u.sensorKey = t.sensorKey \/ (t.sub = "none" /\ t.open \notin Confirmed)
  PROVE  Inv(u) /\ u.life = t.life /\ u.sub = t.sub
<1>1. t \in Sessions
  BY DEF Inv
<1>2. /\ u.life = t.life /\ u.open = t.open /\ u.error = t.error /\ u.sub = t.sub
      /\ u.joined = t.joined /\ u.at = t.at /\ u.n = t.n /\ u.arm = t.arm
      /\ u.base = t.base /\ u.esd = t.esd /\ u.claimed = t.claimed
      /\ u.verifyPending = t.verifyPending /\ u.psk = t.psk
      /\ u.established = t.established
  BY <1>1 DEF Same, Sessions
<1>3. /\ u.gen = t.gen /\ u.hw = t.hw /\ u.retained = t.retained /\ u.fdt = t.fdt
      /\ u.baseValid = t.baseValid /\ u.recoveryPending = t.recoveryPending
  BY <1>1 DEF Same, Sessions
<1>4. Children(u)
  BY <1>2 DEF Inv, Children
<1>5. Machines(u)
  BY <1>2 DEF Inv, Machines, Bringing
<1>6. Ordered(u)
  BY <1>2 DEF Inv, Ordered
<1>7. Finishing(u) => Finishing(t)
  BY <1>2 DEF Finishing
<1>8. Published(u)
  BY <1>2, <1>3, <1>7 DEF Inv, Published, Whole, Fit, Sound
<1> QED
  BY <1>2, <1>4, <1>5, <1>6, <1>8 DEF Inv

\* A completion: what the machine makes of an answer, settled and named.
Marked(t) == [t EXCEPT !.needsReinit = TRUE]

LEMMA MarkedInv ==
  ASSUME NEW t, Inv(t)
  PROVE  LET u == Marked(t)
         IN  Inv(u) /\ Same(t, u, {"needsReinit"}) /\ u.life = t.life
<1> DEFINE yes == TRUE
           u == [t EXCEPT !.needsReinit = yes]
<1>1. Marked(t) = u /\ yes \in BOOLEAN /\ yes /\ t \in Sessions
  BY DEF Marked, Inv
<1> HIDE DEF yes
<1>2. u \in Sessions /\ Same(t, u, {"needsReinit"}) /\ u.needsReinit = yes
  BY ZenonT(40), <1>1 DEF Sessions, Same
<1> HIDE DEF u
<1>3. Same(t, u, {"cancelled", "removed", "needsReinit", "sensorKey", "file"})
      /\ u.sensorKey = t.sensorKey
  BY <1>1, <1>2 DEF Same, Sessions
<1> QED
  BY <1>1, <1>2, <1>3, Touched

Reported == {"ok", "rejected", "exhausted", "fault", "cancelled", "gone"}

LEMMA AnswersAre ==
  ASSUME NEW o \in Answers
  PROVE  /\ o \in Reported \cup {"interrupted"}
         /\ o = "rejected" => Judged \/ s.at = "VALIDATE"
  BY DEF Answers, Outcome, Reported

LEMMA Completed ==
  ASSUME NEW r, NEW t, Sequel(r, t)
  PROVE  Good(r, Named(Settle(t)))
  BY SettleGood, NamedGood

LEMMA OpenCommandGood == Inv(s) /\ OpenCommand => Good(s, s')
<1> SUFFICES ASSUME Inv(s), OpenCommand
             PROVE  Good(s, s')
  OBVIOUS
<1>1. PICK o \in Answers :
        s' = Named(Settle(IF o = "interrupted" THEN OpenResult(Marked(s), "cancelled")
                          ELSE OpenResult(s, o)))
  BY DEF OpenCommand, Complete, Marked
<1>2. s.sub = "none" /\ s.open \notin {"none", "USB_RESET", "CLAIM_INTERFACE"}
      /\ s.at = "none" /\ s.arm = "none"
  BY DEF OpenCommand, Inv, Children
<1>3. o \in Reported \cup {"interrupted"} /\ o # "rejected"
  BY <1>2, AnswersAre DEF Judged
<1>4. CASE o = "interrupted"
  <2> DEFINE t == Marked(s)
  <2>1. Inv(t) /\ t.life = s.life /\ t.sub = "none" /\ t.open = s.open
    BY <1>2, MarkedInv DEF Same, Inv, Sessions
  <2> HIDE DEF t
  <2>2. Sequel(t, OpenResult(t, "cancelled"))
    BY <1>2, <2>1, OpenInv
  <2>3. Sequel(s, OpenResult(t, "cancelled"))
    BY <2>1, <2>2 DEF Sequel, Granted
  <2> QED
    BY <1>1, <1>4, <2>3, Completed DEF t
<1>5. CASE o # "interrupted"
  <2>1. Sequel(s, OpenResult(s, o))
    BY <1>2, <1>3, <1>5, OpenInv DEF Reported
  <2> QED
    BY <1>1, <1>5, <2>1, Completed
<1> QED
  BY <1>4, <1>5

LEMMA ProbeGood == Inv(s) /\ Probe => Good(s, s')
<1> SUFFICES ASSUME Inv(s), Probe
             PROVE  Good(s, s')
  OBVIOUS
<1>1. PICK o \in Answers :
        s' = Named(Settle(IF o = "interrupted" THEN ProbeResult(Marked(s), "cancelled")
                          ELSE ProbeResult(s, o)))
  BY DEF Probe, Complete, Marked
<1>2. s.sub = "probe" /\ s.at \in ProbeState /\ s.arm = "none"
  BY DEF Probe, Inv, Children
<1>3. o \in Reported \cup {"interrupted"} /\ o # "rejected"
  BY <1>2, AnswersAre DEF Judged, ProbeState
<1>4. CASE o = "interrupted"
  <2> DEFINE t == Marked(s)
  <2>1. Inv(t) /\ t.life = s.life /\ t.sub = "probe"
    BY <1>2, MarkedInv DEF Same, Inv, Sessions
  <2> HIDE DEF t
  <2>2. Sequel(s, ProbeResult(t, "cancelled"))
    BY <2>1, ProbeInv, SameLife
  <2> QED
    BY <1>1, <1>4, <2>2, Completed DEF t
<1>5. CASE o # "interrupted"
  <2>1. Sequel(s, ProbeResult(s, o))
    BY <1>2, <1>3, <1>5, ProbeInv, SameLife DEF Reported
  <2> QED
    BY <1>1, <1>5, <2>1, Completed
<1> QED
  BY <1>4, <1>5

LEMMA ChipGood == Inv(s) /\ Chip => Good(s, s')
<1> SUFFICES ASSUME Inv(s), Chip
             PROVE  Good(s, s')
  OBVIOUS
<1>1. PICK o \in Answers :
        s' = Named(Settle(IF o = "interrupted" THEN ChipResult(Marked(s), "cancelled")
                          ELSE ChipResult(s, o)))
  BY DEF Chip, Complete, Marked
<1>2. s.sub = "chip" /\ o \in Reported \cup {"interrupted"}
  BY AnswersAre DEF Chip
<1>3. CASE o = "interrupted"
  <2> DEFINE t == Marked(s)
  <2>1. Inv(t) /\ t.life = s.life /\ t.sub = "chip"
    BY <1>2, MarkedInv DEF Same, Inv, Sessions
  <2> HIDE DEF t
  <2>2. Sequel(s, ChipResult(t, "cancelled"))
    BY <2>1, ChipInv, SameLife
  <2> QED
    BY <1>1, <1>3, <2>2, Completed DEF t
<1>4. CASE o # "interrupted"
  <2>1. Sequel(s, ChipResult(s, o))
    BY <1>2, <1>4, ChipInv, SameLife DEF Reported
  <2> QED
    BY <1>1, <1>4, <2>1, Completed
<1> QED
  BY <1>3, <1>4

LEMMA GtlsGood == Inv(s) /\ Gtls => Good(s, s')
<1> SUFFICES ASSUME Inv(s), Gtls
             PROVE  Good(s, s')
  OBVIOUS
<1>1. PICK o \in Answers :
        s' = Named(Settle(IF o = "interrupted" THEN GtlsResult(Marked(s), "cancelled")
                          ELSE GtlsResult(s, o)))
  BY DEF Gtls, Complete, Marked
<1>2. s.sub = "gtls" /\ s.at \in GtlsState /\ s.arm = "none"
  BY DEF Gtls, Inv, Children
<1>3. o \in Reported \cup {"interrupted"} /\ o # "rejected"
  BY <1>2, AnswersAre DEF Judged, GtlsState
<1>4. CASE o = "interrupted"
  <2> DEFINE t == Marked(s)
  <2>1. Inv(t) /\ t.life = s.life /\ t.sub = "gtls"
    BY <1>2, MarkedInv DEF Same, Inv, Sessions
  <2> HIDE DEF t
  <2>2. Sequel(s, GtlsResult(t, "cancelled"))
    BY <2>1, GtlsInv, SameLife
  <2> QED
    BY <1>1, <1>4, <2>2, Completed DEF t
<1>5. CASE o # "interrupted"
  <2>1. Sequel(s, GtlsResult(s, o))
    BY <1>2, <1>3, <1>5, GtlsInv, SameLife DEF Reported
  <2> QED
    BY <1>1, <1>5, <2>1, Completed
<1> QED
  BY <1>4, <1>5

LEMMA BaseGood == Inv(s) /\ BaseAcquisition => Good(s, s')
<1> SUFFICES ASSUME Inv(s), BaseAcquisition
             PROVE  Good(s, s')
  OBVIOUS
<1>1. PICK o \in Answers :
        s' = Named(Settle(IF o = "interrupted" THEN BaseCommand(Marked(s), "cancelled")
                          ELSE BaseCommand(s, o)))
  BY DEF BaseAcquisition, Complete, Marked
<1>2. s.sub = "base" /\ o \in Reported \cup {"interrupted"}
  BY AnswersAre DEF BaseAcquisition
<1>3. CASE o = "interrupted"
  <2> DEFINE t == Marked(s)
  <2>1. Inv(t) /\ t.life = s.life /\ t.sub = "base"
    BY <1>2, MarkedInv DEF Same, Inv, Sessions
  <2> HIDE DEF t
  <2>2. Sequel(s, BaseCommand(t, "cancelled"))
    BY <2>1, BaseInv, SameLife
  <2> QED
    BY <1>1, <1>3, <2>2, Completed DEF t
<1>4. CASE o # "interrupted"
  <2>1. Sequel(s, BaseCommand(s, o))
    BY <1>2, <1>4, BaseInv, SameLife DEF Reported
  <2> QED
    BY <1>1, <1>4, <2>1, Completed
<1> QED
  BY <1>3, <1>4

LEMMA ArmGood == Inv(s) /\ Arm => Good(s, s')
<1> SUFFICES ASSUME Inv(s), Arm
             PROVE  Good(s, s')
  OBVIOUS
<1>1. PICK o \in Answers :
        s' = Named(Settle(IF o = "interrupted" THEN ArmResult(Marked(s), "cancelled")
                          ELSE ArmResult(s, o)))
  BY DEF Arm, Complete, Marked
<1>2. s.arm # "none" /\ o \in Reported \cup {"interrupted"}
  BY AnswersAre DEF Arm
<1>3. CASE o = "interrupted"
  <2> DEFINE t == Marked(s)
  <2>1. Inv(t) /\ t.life = s.life /\ t.arm # "none"
    BY <1>2, MarkedInv DEF Same, Inv, Sessions
  <2> HIDE DEF t
  <2>2. Sequel(s, ArmResult(t, "cancelled"))
    BY <2>1, ArmInv, SameLife
  <2> QED
    BY <1>1, <1>3, <2>2, Completed DEF t
<1>4. CASE o # "interrupted"
  <2>1. Sequel(s, ArmResult(s, o))
    BY <1>2, <1>4, ArmInv, SameLife DEF Reported
  <2> QED
    BY <1>1, <1>4, <2>1, Completed
<1> QED
  BY <1>3, <1>4

LEMMA EsdGood == Inv(s) /\ Esd => Good(s, s')
<1> SUFFICES ASSUME Inv(s), Esd
             PROVE  Good(s, s')
  OBVIOUS
<1>1. PICK o \in Answers :
        s' = Named(Settle(IF o = "interrupted" THEN EsdResult(Marked(s), "cancelled")
                          ELSE EsdResult(s, o)))
  BY DEF Esd, Complete, Marked
<1>2. s.sub = "esd" /\ s.arm = "none" /\ o \in Reported \cup {"interrupted"}
  BY AnswersAre DEF Esd
<1>3. CASE o = "interrupted"
  <2> DEFINE t == Marked(s)
  <2>1. Inv(t) /\ t.life = s.life /\ t.sub = "esd" /\ t.arm = "none"
    BY <1>2, MarkedInv DEF Same, Inv, Sessions
  <2> HIDE DEF t
  <2>2. Sequel(s, EsdResult(t, "cancelled"))
    BY <2>1, EsdInv, SameLife
  <2> QED
    BY <1>1, <1>3, <2>2, Completed DEF t
<1>4. CASE o # "interrupted"
  <2>1. Sequel(s, EsdResult(s, o))
    BY <1>2, <1>4, EsdInv, SameLife DEF Reported
  <2> QED
    BY <1>1, <1>4, <2>1, Completed
<1> QED
  BY <1>3, <1>4

LEMMA UsbResetGood == Inv(s) /\ UsbReset => Good(s, s')
<1> SUFFICES ASSUME Inv(s), UsbReset
             PROVE  Good(s, s')
  OBVIOUS
<1>1. /\ s \in Sessions /\ s.open = "USB_RESET" /\ Bringing(s) /\ s.sub = "none"
      /\ s.error = "none" /\ ~s.claimed /\ s.gen = NoGeneration
  BY DEF UsbReset, Inv, Machines, Bringing, Delegating, Ordered, Published, Early
<1>2. Ending(s)
  BY <1>1, EndingIs
<1>3. ASSUME NEW e \in HostErrors, s' = Fail(s, e)
      PROVE  Good(s, s')
  <2>1. e \in Error \ {"none"}
    BY DEF HostErrors, Error
  <2> QED
    BY <1>1, <1>2, <1>3, <2>1, FailInv DEF Good, Granted
<1>4. ASSUME s' = Wait([s EXCEPT !.resetRequired = FALSE], "CLAIM_INTERFACE")
      PROVE  Good(s, s')
  <2> DEFINE no == FALSE
             u == [s EXCEPT !.resetRequired = no, !.open = "CLAIM_INTERFACE"]
  <2>1. s' = u /\ no \in BOOLEAN
    BY <1>4 DEF Wait
  <2> HIDE DEF no
  <2>2. u \in Sessions /\ Same(s, u, {"resetRequired", "open"})
        /\ u.open = "CLAIM_INTERFACE"
    BY ZenonT(40), <1>1, <2>1 DEF Sessions, OpenState, Same
  <2> HIDE DEF u
  <2>3. /\ u.life = s.life /\ u.error = "none" /\ u.sub = "none" /\ u.joined = "none"
        /\ u.at = "none" /\ u.n = 0 /\ u.arm = "none" /\ u.base = NoBase
        /\ u.esd = NoEsd /\ u.gen = NoGeneration /\ u.hw = s.hw /\ ~u.claimed
        /\ u.retained = s.retained
    BY <1>1, <1>2, <2>2 DEF Ending, Sessions, Same
  <2>4. u.life \in {"opening", "reinit"}
    BY <1>1, <2>3 DEF Bringing
  <2>5. Children(u) /\ Machines(u)
    BY <2>2, <2>3, <2>4 DEF Children, Machines, Bringing, Delegating
  <2>6. Ordered(u)
    BY <2>2, <2>3, <2>4 DEF Ordered, Unclaimed, Confirmed, Handshaken
  <2>7. Published(u)
    <3>1. s.gen = NoGeneration
      BY <1>1
    <3>2. Whole(u)
      BY <1>2, <2>3, <3>1 DEF Ending, Whole
    <3> QED
      BY <2>2, <2>3, <2>4, <3>2 DEF Published, Finishing
  <2>8. Inv(u) /\ u.life = s.life /\ u.sub # "joined"
    BY <2>2, <2>3, <2>5, <2>6, <2>7 DEF Inv
  <2> QED
    BY <2>1, <2>8 DEF Good, Granted
<1> QED
  BY <1>3, <1>4 DEF UsbReset

LEMMA ClaimInterfaceGood == Inv(s) /\ ClaimInterface => Good(s, s')
<1> SUFFICES ASSUME Inv(s), ClaimInterface
             PROVE  Good(s, s')
  OBVIOUS
<1>1. /\ s \in Sessions /\ s.open = "CLAIM_INTERFACE" /\ Bringing(s) /\ s.sub = "none"
      /\ s.error = "none" /\ s.gen = NoGeneration
  BY DEF ClaimInterface, Inv, Machines, Bringing, Delegating, Published, Early
<1>2. Ending(s)
  BY <1>1, EndingIs
<1>3. ASSUME NEW e \in HostErrors, s' = Fail(s, e)
      PROVE  Good(s, s')
  <2>1. e \in Error \ {"none"}
    BY DEF HostErrors, Error
  <2> QED
    BY <1>1, <1>2, <1>3, <2>1, FailInv DEF Good, Granted
<1>4. ASSUME s' = Settle(StartChild([s EXCEPT !.claimed = TRUE], "PING", "probe", "PING"))
      PROVE  Good(s, s')
  <2> DEFINE yes == TRUE
             t == [s EXCEPT !.claimed = yes]
  <2>1. s' = Settle(StartChild(t, "PING", "probe", "PING")) /\ yes \in BOOLEAN /\ yes
    BY <1>4
  <2> HIDE DEF yes
  <2>2. t \in Sessions /\ Same(s, t, {"claimed"}) /\ t.claimed
    BY ZenonT(40), <1>1, <2>1 DEF Sessions, Same
  <2> HIDE DEF t
  <2>3. Ending(t) /\ t.life = s.life /\ t.error = "none" /\ t.gen = NoGeneration
    BY <1>1, <1>2, <2>2, EndingOn DEF Same
  <2> DEFINE u == StartChild(t, "PING", "probe", "PING")
  <2>4. Inv(u) /\ u.life = s.life
    BY <2>2, <2>3, StartChildInv
  <2> HIDE DEF u
  <2>5. Sequel(s, u)
    BY <2>4, SameLife
  <2> QED
    BY <2>1, <2>5, SettleGood DEF u
<1> QED
  BY <1>3, <1>4 DEF ClaimInterface

\* ---------------------------------------------------------------------------
\* The requests.

LEMMA AtRest ==
  ASSUME NEW t, Inv(t), t.sub = "none", ~Bringing(t)
  PROVE  Quiet(t)
  BY DEF Inv, Children, Machines, Published, Quiet

LEMMA OpenDeviceGood == Inv(s) /\ OpenDevice => Good(s, s')
<1> SUFFICES ASSUME Inv(s), OpenDevice
             PROVE  Good(s, s')
  OBVIOUS
<1> DEFINE no == FALSE
           t == [s EXCEPT !.life = "opening", !.recoveryAttempted = no,
                          !.resetRequired = no]
<1>1. s' = StartOpen(t) /\ s.life = "closed" /\ no \in BOOLEAN
  BY DEF OpenDevice
<1> HIDE DEF no
<1>2. Quiet(s) /\ s \in Sessions /\ s.gen = NoGeneration /\ ~s.claimed
  BY <1>1, AtRest DEF Inv, Machines, Bringing, Ordered, Published
<1>3. t \in Sessions /\ Same(s, t, {"life", "recoveryAttempted", "resetRequired"})
      /\ t.life = "opening"
  BY ZenonT(40), <1>1, <1>2 DEF Sessions, Life, Same
<1> HIDE DEF t
<1>4. /\ t.sub = "none" /\ t.joined = "none" /\ t.at = "none" /\ t.n = 0
      /\ t.arm = "none" /\ t.base = NoBase /\ t.esd = NoEsd /\ t.gen = NoGeneration
      /\ t.hw = s.hw /\ t.retained = s.retained /\ ~t.claimed
  BY <1>2, <1>3 DEF Quiet, Sessions, Same
<1>5. Ending(t)
  BY <1>2, <1>3, <1>4 DEF Quiet, Ending, Bringing, Whole
<1>6. Inv(s') /\ s'.life = "opening" /\ s'.sub = "none"
  BY <1>1, <1>3, <1>4, <1>5, StartOpenInv
<1> QED
  BY <1>6 DEF Good, Granted

LEMMA ClosedInv ==
  ASSUME NEW u, Quiet(u), u.life = "closed", ~u.claimed, u.gen = NoGeneration
  PROVE  Inv(u)
<1>1. Children(u) /\ Machines(u)
  BY DEF Quiet, Children, Machines, Bringing, Delegating
<1>2. Ordered(u)
  BY DEF Quiet, Ordered, Unclaimed, Confirmed, Handshaken
<1>3. Published(u)
  BY DEF Quiet, Published, Finishing
<1> QED
  BY <1>1, <1>2, <1>3 DEF Quiet, Inv

LEMMA CloseDeviceGood == Inv(s) /\ CloseDevice => Good(s, s')
<1> SUFFICES ASSUME Inv(s), CloseDevice
             PROVE  Good(s, s')
  OBVIOUS
<1> DEFINE no == FALSE
           f == ForgetHardware(s)
           d == [f EXCEPT !.psk = "default", !.imported = no]
           m == Named(d)
           u == [m EXCEPT !.life = "closed", !.claimed = no, !.cancelled = no]
<1>1. s' = u /\ no \in BOOLEAN /\ ~no
  BY DEF CloseDevice, DropSession
<1> HIDE DEF no
<1>2. Quiet(s) /\ s \in Sessions
  BY AtRest DEF CloseDevice, Resting, Bringing, Inv, Machines
<1>3. f \in Sessions /\ f.gen = NoGeneration /\ f.hw = NoReference
      /\ \A g \in DOMAIN f \ {"gen", "retained", "hw"} : f[g] = s[g]
  BY <1>2, ForgetFacts
<1> HIDE DEF f
<1>4. d \in Sessions /\ d.gen = NoGeneration /\ d.hw = NoReference
  BY ZenonT(40), <1>1, <1>3 DEF Sessions
<1>5. /\ d.open = "none" /\ d.error = "none" /\ d.sub = "none" /\ d.joined = "none"
      /\ d.at = "none" /\ d.n = 0 /\ d.arm = "none" /\ d.base = NoBase /\ d.esd = NoEsd
  BY <1>2, <1>3 DEF Quiet, Sessions
<1> HIDE DEF d
<1>6. /\ m \in Sessions /\ Same(d, m, {"hw", "gen", "fdt", "base"})
      /\ m.gen = NoGeneration /\ m.base = NoBase /\ m.hw.ref = None
      /\ m.hw.pending = d.hw.pending
  <2>1. m \in Sessions /\ Same(d, m, {"hw", "gen", "fdt", "base"})
        /\ m.gen = NoGeneration /\ m.base = NoBase /\ m.hw.ref = None
    BY <1>4, <1>5, Nothing, NamedIs
  <2>2. Same(d.hw, m.hw, {"ref", "id"})
    BY <1>4, NamedIs
  <2>3. m.hw.pending = d.hw.pending
    BY <1>4, <2>2 DEF Same, Sessions, References
  <2> QED
    BY <2>1, <2>3
<1> HIDE DEF m
<1>7. u \in Sessions /\ Same(m, u, {"life", "claimed", "cancelled"}) /\ u.life = "closed"
  BY ZenonT(40), <1>1, <1>6 DEF Sessions, Life, Same
<1>8. ~u.claimed
  BY <1>1, <1>6 DEF Sessions
<1> HIDE DEF u
<1>9. /\ u.open = "none" /\ u.error = "none" /\ u.sub = "none" /\ u.joined = "none"
      /\ u.at = "none" /\ u.n = 0 /\ u.arm = "none" /\ u.base = NoBase /\ u.esd = NoEsd
      /\ u.gen = NoGeneration /\ u.hw = m.hw
  BY <1>4, <1>5, <1>6, <1>7 DEF Sessions, Same
<1>10. ~u.hw.pending /\ u.hw.ref = None
  BY <1>4, <1>6, <1>9, Nothing
<1>11. Quiet(u)
  BY <1>7, <1>9, <1>10 DEF Quiet, Whole
<1>12. Inv(u)
  BY <1>7, <1>8, <1>9, <1>11, ClosedInv
<1> QED
  BY <1>1, <1>7, <1>9, <1>12 DEF Good, Granted

LEMMA ReinitGood == Inv(s) /\ Reinit => Good(s, s')
<1> SUFFICES ASSUME Inv(s), Reinit
             PROVE  Good(s, s')
  OBVIOUS
<1>1. s' = Named(ReinitIdleJoined(s)) /\ Quiet(s)
  BY AtRest DEF Reinit, Resting, Bringing, Inv, Machines
<1> DEFINE u == ReinitIdleJoined(s)
<1>2. Inv(u) /\ u.life = "reinit" /\ u.sub = "none"
  BY <1>1, ReinitInv DEF Quiet
<1> HIDE DEF u
<1>3. Good(s, u)
  BY <1>2 DEF Good, Granted
<1> QED
  BY <1>1, <1>3, NamedGood DEF u

LEMMA SuspendGood == Inv(s) /\ Suspend => Good(s, s')
<1> SUFFICES ASSUME Inv(s), Suspend
             PROVE  Good(s, s')
  OBVIOUS
<1>1. PICK failed \in BOOLEAN :
        s' = [s EXCEPT !.life = "suspended", !.needsReinit = @ \/ failed]
  BY DEF Suspend
<1>2. s \in Sessions /\ s.life = "ready" /\ s.sub = "none" /\ Quiet(s)
  BY AtRest DEF Suspend, Resting, Bringing, Inv
<1> DEFINE b == s.needsReinit \/ failed
           u == [s EXCEPT !.life = "suspended", !.needsReinit = b]
<1>3. s' = u /\ b \in BOOLEAN /\ (~b => ~s.needsReinit)
  BY <1>1, <1>2 DEF Sessions
<1> HIDE DEF b
<1>4. u \in Sessions /\ Same(s, u, {"life", "needsReinit"}) /\ u.life = "suspended"
      /\ u.needsReinit = b
  BY <1>2, <1>3 DEF Sessions, Life, Same
<1> HIDE DEF u
<1>5. /\ u.open = "none" /\ u.error = "none" /\ u.sub = "none" /\ u.joined = "none"
      /\ u.at = "none" /\ u.n = 0 /\ u.arm = "none" /\ u.base = NoBase /\ u.esd = NoEsd
  BY <1>2, <1>4 DEF Quiet, Sessions, Same
<1>6. /\ u.gen = s.gen /\ u.hw = s.hw /\ u.retained = s.retained /\ u.fdt = s.fdt
      /\ u.baseValid = s.baseValid /\ u.recoveryPending = s.recoveryPending
  BY <1>2, <1>4 DEF Sessions, Same
<1>7. Children(u) /\ Machines(u)
  BY <1>4, <1>5 DEF Children, Machines, Bringing, Delegating
<1>8. Ordered(u)
  BY <1>4, <1>5 DEF Ordered, Unclaimed, Confirmed, Handshaken
<1>9. ~u.needsReinit => Fit(s)
  BY <1>2, <1>3, <1>4 DEF Inv, Published, Finishing
<1>10. Published(u)
  BY <1>4, <1>5, <1>6, <1>9 DEF Inv, Published, Whole, Finishing, Fit, Sound, Early
<1> QED
  BY <1>3, <1>4, <1>5, <1>7, <1>8, <1>10 DEF Inv, Good, Granted

LEMMA ResumeWarmGood == Inv(s) /\ ResumeWarm => Good(s, s')
<1> SUFFICES ASSUME Inv(s), ResumeWarm
             PROVE  Good(s, s')
  OBVIOUS
<1>1. s \in Sessions /\ s.life = "suspended" /\ ~s.needsReinit /\ s.sub = "none"
      /\ Quiet(s) /\ Fit(s)
  BY AtRest DEF ResumeWarm, Bringing, Inv, Machines, Published, Finishing
<1> DEFINE yes == TRUE
           t == [s EXCEPT !.life = "warm", !.claimed = yes]
           v == [t EXCEPT !.claimed = ~yes]
<1>2. \/ s' = WarmDone(s, "gone")
      \/ s' = Settle(StartGtls(t))
      \/ s' = WarmDone(v, "fault")
  BY DEF ResumeWarm
<1>3. yes \in BOOLEAN /\ yes
  OBVIOUS
<1> HIDE DEF yes
<1>4. t \in Sessions /\ Same(s, t, {"life", "claimed"}) /\ t.life = "warm" /\ t.claimed
  BY ZenonT(40), <1>1, <1>3 DEF Sessions, Life, Same
<1>5. v \in Sessions /\ Same(s, v, {"life", "claimed"})
  BY ZenonT(40), <1>1, <1>3 DEF Sessions, Life, Same
<1> HIDE DEF t, v
<1>6. CASE s' = WarmDone(s, "gone")
  <2>1. Inv(s') /\ s'.sub = "none"
        /\ (s'.life = "ready" /\ ~s'.needsReinit =>
                  s'.claimed /\ s'.established /\ s'.sensorKey = s'.psk)
    BY <1>1, <1>6, WarmInv DEF Error
  <2> QED
    BY <2>1 DEF Good, Granted
<1>7. CASE s' = Settle(StartGtls(t))
  <2>1. /\ t.open = "none" /\ t.error = "none" /\ t.sub = "none" /\ t.joined = "none"
        /\ t.at = "none" /\ t.n = 0 /\ t.arm = "none" /\ t.base = NoBase /\ t.esd = NoEsd
    BY <1>1, <1>4 DEF Quiet, Sessions, Same
  <2>2. /\ t.gen = s.gen /\ t.hw = s.hw /\ t.retained = s.retained /\ t.fdt = s.fdt
        /\ t.baseValid = s.baseValid /\ t.recoveryPending = s.recoveryPending
    BY <1>1, <1>4 DEF Sessions, Same
  <2>3. Ordered(t)
    BY <1>4, <2>1 DEF Ordered, Unclaimed, Confirmed, Handshaken
  <2>4. Published(t)
    BY <1>1, <1>4, <2>1, <2>2 DEF Quiet, Published, Whole, Fit, Sound, Early
  <2> DEFINE u == StartGtls(t)
  <2>5. Inv(u) /\ u.life = "warm" /\ (u.sub = "joined" => u.joined # "none")
    BY <1>4, <2>1, <2>3, <2>4, StartGtlsInv
  <2> HIDE DEF u
  <2>6. Good(t, Settle(u))
    BY <1>4, <2>5, SameLife, SettleGood
  <2>7. Good(s, Settle(u))
    BY <1>1, <1>4, <2>6 DEF Good, Granted
  <2> QED
    BY <1>7, <2>7 DEF u
<1>8. CASE s' = WarmDone(v, "fault")
  <2>1. /\ v.open = "none" /\ v.error = "none" /\ v.sub = "none" /\ v.joined = "none"
        /\ v.at = "none" /\ v.n = 0 /\ v.arm = "none" /\ v.base = NoBase /\ v.esd = NoEsd
        /\ v.gen = s.gen /\ v.hw = s.hw /\ v.retained = s.retained
    BY <1>1, <1>5 DEF Quiet, Sessions, Same
  <2>2. Quiet(v)
    BY <1>1, <1>5, <2>1 DEF Quiet, Whole
  <2>3. Inv(s') /\ s'.sub = "none"
        /\ (s'.life = "ready" /\ ~s'.needsReinit =>
                  s'.claimed /\ s'.established /\ s'.sensorKey = s'.psk)
    BY <1>8, <2>2, WarmInv DEF Error
  <2> QED
    BY <2>3 DEF Good, Granted
<1> QED
  BY <1>2, <1>6, <1>7, <1>8

LEMMA RefreshGood == Inv(s) /\ Refresh => Good(s, s')
<1> SUFFICES ASSUME Inv(s), Refresh
             PROVE  Good(s, s')
  OBVIOUS
<1>1. PICK reason \in Reason : s' = BaseStart(s, TRUE, reason)
  BY DEF Refresh
<1>2. s.life = "ready" /\ s.sub = "none" /\ ~s.needsReinit
  BY DEF Refresh, Coordinating, Resting
<1>3. Inv(s') /\ s'.life = s.life /\ s'.sub # "joined"
  BY <1>1, <1>2, ForcedStartInv
<1> QED
  BY <1>3 DEF Good, Granted

LEMMA RestartGtlsGood == Inv(s) /\ RestartGtls => Good(s, s')
<1> SUFFICES ASSUME Inv(s), RestartGtls
             PROVE  Good(s, s')
  OBVIOUS
<1>1. s' = Settle(StartGtls(s)) /\ s.life = "ready" /\ s.sub = "none"
  BY DEF RestartGtls, Coordinating, Resting
<1>2. Quiet(s) /\ Ordered(s) /\ Published(s)
  BY <1>1, AtRest DEF Bringing, Inv
<1> DEFINE u == StartGtls(s)
<1>3. Inv(u) /\ u.life = s.life
  BY <1>1, <1>2, StartGtlsInv DEF Quiet
<1> HIDE DEF u
<1>4. Good(s, Settle(u))
  BY <1>3, SameLife, SettleGood
<1> QED
  BY <1>1, <1>4 DEF u

LEMMA ArmDetectionGood == Inv(s) /\ (ArmDetection \/ RepairEsd) => Good(s, s')
<1>1. Inv(s) /\ ArmDetection => Good(s, s')
  BY StartArmInv DEF ArmDetection, Coordinating, Resting, Good, Granted
<1>2. Inv(s) /\ RepairEsd => Good(s, s')
  BY StartEsdInv DEF RepairEsd, Coordinating, Resting, Good, Granted
<1> QED
  BY <1>1, <1>2

\* A delivered sample selects the reference of the hardware, with its identity.
LEMMA PrepareSetupIs ==
  ASSUME NEW t, Inv(t), t.gen # NoGeneration
  PROVE  LET u == PrepareSetup(t)
         IN  /\ u \in Sessions /\ Same(t, u, {"gen", "hw"}) /\ Whole(u)
             /\ u.gen # NoGeneration /\ u.gen.id # None
             /\ u.hw.ref = t.hw.ref /\ u.hw.id = t.hw.id
<1>1. t \in Sessions /\ t.gen \in Generations /\ t.hw \in References /\ Whole(t)
  BY DEF Inv, Published, Sessions
<1>2. t.hw.ref # None /\ t.hw.id # None /\ ~t.retained /\ t.gen.id # None
  BY <1>1 DEF Whole
<1>3. CASE t.gen.ready /\ ~t.gen.refresh /\ ~t.hw.pending
  <2>1. PrepareSetup(t) = t
    BY <1>3 DEF PrepareSetup
  <2> QED
    BY <1>1, <1>2, <2>1 DEF Same
<1>4. CASE ~(t.gen.ready /\ ~t.gen.refresh /\ ~t.hw.pending)
  <2> DEFINE no == FALSE
             refresh == t.gen.refresh \/ t.hw.pending
             published == [t.gen EXCEPT !.id = t.hw.id, !.setup = t.hw.ref, !.refresh = refresh]
             hw == [t.hw EXCEPT !.pending = no]
             u == [t EXCEPT !.gen = published, !.hw = hw]
  <2>1. PrepareSetup(t) =
          [t EXCEPT !.gen.id = t.hw.id, !.gen.setup = t.hw.ref, !.gen.refresh = refresh,
                    !.hw.pending = no]
    BY <1>1, <1>2, <1>4 DEF PrepareSetup, Sessions, Generations, References
  <2>2. refresh \in BOOLEAN /\ no \in BOOLEAN /\ ~no
    BY <1>1 DEF Generations, References
  <2> HIDE DEF refresh, no
  <2>3. PrepareSetup(t) = u
    BY <1>1, <2>1 DEF Sessions, Generations
  <2>4. published \in Generations /\ published.id = t.hw.id /\ published.setup = t.hw.ref
    BY <1>1, <2>2 DEF Generations, References
  <2>5. hw \in References /\ hw.ref = t.hw.ref /\ hw.id = t.hw.id /\ ~hw.pending
    BY <1>1, <2>2 DEF References
  <2> HIDE DEF published, hw
  <2>6. u \in Sessions /\ Same(t, u, {"gen", "hw"}) /\ u.gen = published /\ u.hw = hw
    BY <1>1, <2>4, <2>5 DEF Sessions, Same
  <2> HIDE DEF u
  <2>7. ~u.retained
    BY <1>1, <1>2, <2>6 DEF Sessions, Same
  <2>8. u.gen # NoGeneration /\ u.gen.id # None
    BY <1>2, <2>4, <2>6, Nothing
  <2>9. Whole(u)
    BY <1>2, <2>4, <2>5, <2>6, <2>7, <2>8 DEF Whole
  <2> QED
    BY <2>3, <2>4, <2>5, <2>6, <2>8, <2>9
<1> QED
  BY <1>3, <1>4

LEMMA DeliverSampleGood == Inv(s) /\ DeliverSample => Good(s, s')
<1> SUFFICES ASSUME Inv(s), DeliverSample
             PROVE  Good(s, s')
  OBVIOUS
<1>1. PICK admitted \in BOOLEAN : s' = Named(Deliver(s, admitted))
  BY DEF DeliverSample
<1>2. s \in Sessions /\ s.life = "ready" /\ s.sub = "none" /\ s.gen # NoGeneration
  BY DEF DeliverSample, Coordinating, Resting, Inv
<1> DEFINE p == PrepareSetup(s)
           no == FALSE
           ready == p.gen.ready \/ admitted
           published == [p.gen EXCEPT !.ready = ready, !.refresh = no]
           u == [p EXCEPT !.gen = published]
<1>3. Deliver(s, admitted) = [p EXCEPT !.gen.ready = @ \/ admitted, !.gen.refresh = no]
  BY DEF Deliver
<1>4. /\ p \in Sessions /\ Same(s, p, {"gen", "hw"}) /\ Whole(p)
      /\ p.gen # NoGeneration /\ p.gen.id # None
      /\ p.hw.ref = s.hw.ref /\ p.hw.id = s.hw.id
  BY <1>2, PrepareSetupIs
<1> HIDE DEF p
<1>5. no \in BOOLEAN /\ ready \in BOOLEAN /\ p.gen \in Generations
  BY <1>4 DEF Sessions, Generations
<1>6. Deliver(s, admitted) = [p EXCEPT !.gen.ready = ready, !.gen.refresh = no]
  BY <1>3, <1>4 DEF Sessions
<1> HIDE DEF no, ready
<1>7. Deliver(s, admitted) = u
  BY <1>4, <1>6 DEF Sessions
<1>8. published \in Generations /\ published.id = p.gen.id /\ published.setup = p.gen.setup
  BY <1>5 DEF Generations
<1> HIDE DEF published
<1>9. u \in Sessions /\ Same(p, u, {"gen"}) /\ u.gen = published
  BY <1>4, <1>8 DEF Sessions, Same
<1> HIDE DEF u
<1>10. Same(s, u, {"gen", "hw"}) /\ u.hw = p.hw
  BY <1>2, <1>4, <1>9 DEF Sessions, Same
<1>11. /\ u.life = s.life /\ u.open = s.open /\ u.error = s.error /\ u.sub = "none"
       /\ u.joined = s.joined /\ u.at = s.at /\ u.n = s.n /\ u.arm = s.arm
       /\ u.base = s.base /\ u.esd = s.esd /\ u.claimed = s.claimed
       /\ u.verifyPending = s.verifyPending /\ u.sensorKey = s.sensorKey
       /\ u.psk = s.psk /\ u.established = s.established
  BY <1>2, <1>10 DEF Sessions, Same
<1>12. /\ u.retained = s.retained /\ u.fdt = s.fdt /\ u.baseValid = s.baseValid
       /\ u.recoveryPending = s.recoveryPending /\ u.needsReinit = s.needsReinit
       /\ p.retained = s.retained
  BY <1>2, <1>4, <1>10 DEF Sessions, Same
<1>13. u.gen # NoGeneration
  BY <1>4, <1>8, <1>9, Nothing
<1>14. Whole(u)
  BY <1>4, <1>8, <1>9, <1>10, <1>12, <1>13 DEF Whole
<1>15. Children(u)
  BY <1>2, <1>11 DEF Inv, Children
<1>16. Machines(u) /\ s.open = "none"
  BY <1>2, <1>11 DEF Inv, Machines, Bringing
<1>17. Ordered(u)
  BY <1>11 DEF Inv, Ordered
<1>18. Finishing(u) => Fit(s)
  BY <1>11, <1>12 DEF Inv, Published, Finishing
<1>19. Published(u)
  BY <1>2, <1>4, <1>10, <1>11, <1>12, <1>13, <1>14, <1>16, <1>18
  DEF Published, Fit, Sound, Early
<1>20. Good(s, u)
  BY <1>2, <1>9, <1>11, <1>15, <1>16, <1>17, <1>19 DEF Inv, Good, Granted
<1> QED
  BY <1>1, <1>7, <1>20, NamedGood

\* ---------------------------------------------------------------------------
\* Requests that change no machine.

Outside == {"cancelled", "removed", "needsReinit", "sensorKey", "file"}

LEMMA OutsideGood ==
  ASSUME Inv(s), NEW u \in Sessions, Same(s, u, Outside), s.sub # "joined",
         ~u.needsReinit => ~s.needsReinit,
         u.sensorKey = s.sensorKey \/ (s.sub = "none" /\ s.open \notin Confirmed)
  PROVE  Good(s, u)
<1>1. Inv(u) /\ u.life = s.life /\ u.sub = s.sub
  BY Touched DEF Outside
<1> QED
  BY <1>1 DEF Good, Granted

LEMMA FaultSessionGood == Inv(s) /\ FaultSession => Good(s, s')
<1> SUFFICES ASSUME Inv(s), FaultSession
             PROVE  Good(s, s')
  OBVIOUS
<1>1. s' = Marked(s) /\ s.sub = "none"
  BY DEF FaultSession, Resting, Marked
<1>2. Inv(s') /\ Same(s, s', {"needsReinit"}) /\ s'.life = s.life
  BY <1>1, MarkedInv
<1>3. s'.sub = s.sub
  BY <1>2 DEF Same, Inv, Sessions
<1> QED
  BY <1>1, <1>2, <1>3 DEF Good, Granted

LEMMA CancelGood == Inv(s) /\ s.sub # "joined" /\ Cancel => Good(s, s')
<1> SUFFICES ASSUME Inv(s), s.sub # "joined", Cancel
             PROVE  Good(s, s')
  OBVIOUS
<1> DEFINE yes == TRUE
           u == [s EXCEPT !.cancelled = yes]
<1>1. s' = u /\ yes \in BOOLEAN /\ s \in Sessions
  BY DEF Cancel, Inv
<1> HIDE DEF yes
<1>2. u \in Sessions /\ Same(s, u, Outside)
  BY <1>1 DEF Sessions, Same, Outside
<1>3. u.sensorKey = s.sensorKey /\ u.needsReinit = s.needsReinit
  BY <1>1 DEF Sessions
<1> HIDE DEF u
<1> QED
  BY <1>1, <1>2, <1>3, OutsideGood

LEMMA RemovedGood == Inv(s) /\ s.sub # "joined" /\ Removed => Good(s, s')
<1> SUFFICES ASSUME Inv(s), s.sub # "joined", Removed
             PROVE  Good(s, s')
  OBVIOUS
<1> DEFINE yes == TRUE
           stopped == s.cancelled \/ (s.life = "ready" /\ s.sub # "none")
           u == [s EXCEPT !.removed = yes, !.needsReinit = yes, !.cancelled = stopped]
<1>1. s' = u /\ yes \in BOOLEAN /\ yes /\ s \in Sessions /\ stopped \in BOOLEAN
  BY DEF Removed, Inv, Sessions
<1> HIDE DEF yes, stopped
<1>2. u \in Sessions /\ Same(s, u, Outside)
  <2>1. u \in Sessions
    BY <1>1 DEF Sessions
  <2>2. Same(s, u, Outside)
    BY <1>1 DEF Sessions, Same, Outside
  <2> QED
    BY <2>1, <2>2
<1>3. u.sensorKey = s.sensorKey /\ u.needsReinit = yes
  BY <1>1 DEF Sessions
<1> HIDE DEF u
<1> QED
  BY <1>1, <1>2, <1>3, OutsideGood

LEMMA PairElsewhereGood == Inv(s) /\ PairElsewhere => Good(s, s')
<1> SUFFICES ASSUME Inv(s), PairElsewhere
             PROVE  Good(s, s')
  OBVIOUS
<1>1. PICK key \in Key, file \in File :
        s' = [s EXCEPT !.sensorKey = key,
                       !.file = IF s.life = "closed" THEN file ELSE @]
  BY DEF PairElsewhere
<1>2. s \in Sessions /\ s.sub = "none" /\ s.open = "none" /\ s.open \notin Confirmed
  BY DEF PairElsewhere, Inv, Machines, Bringing, Confirmed
<1> DEFINE f == IF s.life = "closed" THEN file ELSE s.file
           u == [s EXCEPT !.sensorKey = key, !.file = f]
<1>3. s' = u /\ f \in File
  BY <1>1, <1>2 DEF Sessions
<1> HIDE DEF f
<1>4. u \in Sessions /\ Same(s, u, Outside)
  BY <1>2, <1>3 DEF Sessions, Same, Outside
<1>5. u.needsReinit = s.needsReinit
  BY <1>2 DEF Sessions
<1> HIDE DEF u
<1> QED
  BY <1>2, <1>3, <1>4, <1>5, OutsideGood

LEMMA SensorTakesKeyGood == Inv(s) /\ SensorTakesKey => Good(s, s')
<1> SUFFICES ASSUME Inv(s), SensorTakesKey
             PROVE  Good(s, s')
  OBVIOUS
<1> DEFINE u == [s EXCEPT !.sensorKey = s.psk]
<1>1. s' = u /\ s.open = "WRITE_PSK" /\ s \in Sessions
  BY DEF SensorTakesKey, Inv
<1>2. s.sub = "none" /\ s.open \notin Confirmed
  BY <1>1 DEF Inv, Machines, Bringing, Delegating, Confirmed
<1>3. u \in Sessions /\ Same(s, u, Outside)
  BY <1>1 DEF Sessions, Key, Same, Outside
<1>4. u.needsReinit = s.needsReinit
  BY <1>1 DEF Sessions
<1> HIDE DEF u
<1> QED
  BY <1>1, <1>2, <1>3, <1>4, OutsideGood

LEMMA NewDeviceIs ==
  ASSUME NEW key \in Key, NEW file \in File
  PROVE  LET u == NewDevice(key, file)
         IN  Inv(u) /\ u.sub = "none" /\ u.life = "closed"
<1> DEFINE u == NewDevice(key, file)
<1>1. NoBase \in Bases /\ NoEsd \in [notice : BOOLEAN]
  BY DEF NoBase, NoEsd, Bases, Token, None, Error
<1>2. u \in Sessions
  BY <1>1, Nothing
  DEF NewDevice, Sessions, Life, OpenState, Child, ChildState, Error, Token, None
<1>3. /\ u.life = "closed" /\ u.open = "none" /\ u.error = "none" /\ u.sub = "none"
      /\ u.joined = "none" /\ u.at = "none" /\ u.n = 0 /\ u.arm = "none"
      /\ u.base = NoBase /\ u.esd = NoEsd /\ u.gen = NoGeneration
      /\ u.hw = NoReference /\ ~u.claimed
  BY DEF NewDevice
<1> HIDE DEF u
<1>4. Quiet(u)
  BY <1>2, <1>3, Nothing DEF Quiet, Whole
<1> QED
  BY <1>3, <1>4, ClosedInv DEF u

\* ---------------------------------------------------------------------------
\* The invariant.

LEMMA InitInv == Init => IInv
  BY NewDeviceIs DEF Init, IInv

LEMMA PlugGood == Plug => Good(s, s')
<1> SUFFICES ASSUME Plug
             PROVE  Good(s, s')
  OBVIOUS
<1>1. PICK key \in Key, file \in File : s' = NewDevice(key, file)
  BY DEF Plug
<1>2. Inv(s') /\ s'.sub = "none" /\ s'.life = "closed"
  BY <1>1, NewDeviceIs
<1> QED
  BY <1>2 DEF Good, Granted

LEMMA NextGood == Inv(s) /\ s.sub # "joined" /\ Next => Good(s, s')
<1> SUFFICES ASSUME Inv(s), s.sub # "joined", Next
             PROVE  Good(s, s')
  OBVIOUS
<1>1. CASE UsbReset \/ ClaimInterface \/ OpenCommand
  BY <1>1, UsbResetGood, ClaimInterfaceGood, OpenCommandGood
<1>2. CASE Probe \/ Chip \/ Gtls \/ BaseAcquisition
  BY <1>2, ProbeGood, ChipGood, GtlsGood, BaseGood
<1>3. CASE Arm \/ Esd
  BY <1>3, ArmGood, EsdGood
<1>4. CASE OpenDevice \/ CloseDevice \/ Reinit \/ Suspend \/ ResumeWarm
  BY <1>4, OpenDeviceGood, CloseDeviceGood, ReinitGood, SuspendGood, ResumeWarmGood
<1>5. CASE Refresh \/ RestartGtls \/ ArmDetection \/ RepairEsd \/ DeliverSample
  BY <1>5, RefreshGood, RestartGtlsGood, ArmDetectionGood, DeliverSampleGood
<1>6. CASE FaultSession \/ Cancel \/ Removed
  BY <1>6, FaultSessionGood, CancelGood, RemovedGood
<1>7. CASE PairElsewhere \/ SensorTakesKey \/ Plug
  BY <1>7, PairElsewhereGood, SensorTakesKeyGood, PlugGood
<1> QED
  BY <1>1, <1>2, <1>3, <1>4, <1>5, <1>6, <1>7 DEF Next, Machine

LEMMA NextInv == IInv /\ [Next]_vars => IInv'
<1> SUFFICES ASSUME IInv, [Next]_vars
             PROVE  IInv'
  OBVIOUS
<1>1. CASE Next
  <2>1. Inv(s') /\ s'.sub # "joined"
    BY <1>1, NextGood DEF IInv, Good
  <2> QED
    BY <2>1 DEF IInv
<1>2. CASE UNCHANGED vars
  BY <1>2 DEF vars, IInv
<1> QED
  BY <1>1, <1>2

LEMMA TypesFollow == IInv => TypeOK
<1> SUFFICES ASSUME IInv
             PROVE  TypeOK
  OBVIOUS
<1>1. s \in Sessions /\ Children(s) /\ Machines(s) /\ s.sub # "joined"
  BY DEF IInv, Inv
<1>2. /\ s.life \in Life /\ s.open \in OpenState /\ s.sub \in Child \ {"joined"}
      /\ s.at \in ChildState /\ s.n \in Nat /\ s.error \in Error /\ s.sensorKey \in Key
      /\ s.psk \in {"default", "windows"} /\ s.fdt \in Token
      /\ s.arm \in {"none", "FIRST", "CONFIG", "REPEAT"}
      /\ s.hw \in References /\ s.gen \in Generations
  BY <1>1 DEF Sessions
<1>3. s.hw.ref \in Token /\ s.gen.setup \in Token
  BY <1>2 DEF References, Generations
<1>4. s.joined = "none" /\ (s.open # "none" <=> s.life \in {"opening", "reinit"})
  BY <1>1 DEF Machines, Bringing
<1>5. /\ s.arm # "none" => s.sub \in {"arm", "esd"}
      /\ s.sub = "none" => s.base = NoBase /\ s.esd = NoEsd /\ s.n = 0
  BY <1>1 DEF Children
<1>6. s.n <= ProbeFailures + ChipFailures + 2 * GtlsGroup + EsdResets
  <2>1. /\ ProbeFailures \in Nat /\ ChipFailures \in Nat /\ GtlsGroup \in Nat
        /\ EsdResets \in Nat
    BY OpenAssumption, RepairAssumption
  <2>2. \/ s.n = 0 \/ s.n <= ProbeFailures \/ s.n <= ChipFailures
        \/ s.n <= 2 * GtlsGroup \/ s.n <= EsdResets
    BY <1>1, <1>2 DEF Children, Child
  <2> QED
    BY <1>2, <2>1, <2>2
<1> QED
  BY <1>2, <1>3, <1>4, <1>5, <1>6 DEF TypeOK

LEMMA OrderFollows == IInv => BringUpOrdered
  BY DEF IInv, Inv, Ordered, Confirmed, BringUpOrdered, ResetUnclaimed, KeyConfirmed

LEMMA PublicationFollows == IInv => PublishedTogether
<1> SUFFICES ASSUME IInv
             PROVE  PublishedTogether
  OBVIOUS
<1>1. Whole(s) /\ (Finishing(s) => Fit(s))
  BY DEF IInv, Inv, Published
<1> QED
  BY <1>1 DEF Whole, Finishing, Fit, Sound, PublishedTogether

LEMMA ReadyFollows ==
  IInv /\ [Next]_vars =>
    [(s.life # "ready" /\ s'.life = "ready" /\ ~s'.needsReinit)
       => /\ s'.claimed /\ s'.established /\ s'.sensorKey = s'.psk
          /\ s'.gen # NoGeneration \/ s'.recoveryPending]_vars
<1> SUFFICES ASSUME IInv, Next, s.life # "ready", s'.life = "ready", ~s'.needsReinit
             PROVE  /\ s'.claimed /\ s'.established /\ s'.sensorKey = s'.psk
                    /\ s'.gen # NoGeneration \/ s'.recoveryPending
  OBVIOUS
<1>1. Good(s, s')
  BY NextGood DEF IInv
<1>2. s'.claimed /\ s'.established /\ s'.sensorKey = s'.psk
  BY <1>1 DEF Good, Granted
<1>3. Finishing(s') => Fit(s')
  BY <1>1 DEF Good, Inv, Published
<1>4. s'.gen # NoGeneration \/ s'.recoveryPending
  BY <1>3 DEF Finishing, Fit
<1> QED
  BY <1>2, <1>4

\* Between two callbacks a session is in a state of the invariant, whatever has
\* been opened, refused, rebuilt, resumed or unplugged before.
THEOREM InvariantHolds == Spec => []IInv
<1>1. Init => IInv
  BY InitInv
<1>2. IInv /\ [Next]_vars => IInv'
  BY NextInv
<1> QED
  BY <1>1, <1>2, PTL DEF Spec

\* The record has its type, one machine at a time runs, its attempts stay within
\* the bounds of the code, and a child ends in the step that completes its last
\* command (device/session.c, device/base.c, device/commands.c).
THEOREM TypeCorrect == Spec => []TypeOK
  BY InvariantHolds, TypesFollow, PTL

\* No path to an initialization resets or claims a device whose claim the driver
\* still holds, and no handshake of one starts on a sensor whose key is not the
\* selected one (session.c:989-1114, 1255-1262, 1331-1347, 1578-1585).
THEOREM BringUpIsOrdered == Spec => []BringUpOrdered
  BY InvariantHolds, OrderFollows, PTL

\* A generation, the reference behind it, its setup frame and the retained state
\* of the process appear and disappear together, and a valid base of a ready
\* session has the finger detection of its own acquisition (base.c:357-419,
\* 528-575, 782-926).
THEOREM PublishedAsOne == Spec => []PublishedTogether
  BY InvariantHolds, PublicationFollows, PTL

\* Whatever made it ready, an open, its recovery, a reconstruction or a resume, a
\* session with nothing left to rebuild has the claim, an established key that is
\* the sensor's, and a generation or the recovery that will make one
\* (session.c:1268-1276, 1530-1546, scan.c:435-453).
THEOREM ReadyIsEstablished == Spec => ReadyEstablished
<1>1. IInv /\ [Next]_vars =>
        [(s.life # "ready" /\ s'.life = "ready" /\ ~s'.needsReinit)
           => /\ s'.claimed /\ s'.established /\ s'.sensorKey = s'.psk
              /\ s'.gen # NoGeneration \/ s'.recoveryPending]_vars
  BY ReadyFollows
<1>2. Spec => [][Next]_vars
  BY PTL DEF Spec
<1> QED
  BY <1>1, <1>2, InvariantHolds, PTL DEF ReadyEstablished


\* ---------------------------------------------------------------------------
\* The file.  OldOrNew is not inductive: it does not say what a write that has
\* not renamed yet would fall back to.

Unrenamed == {"start", "made", "open", "written", "synced"}

\* The shape of the state, as far as the proof needs it.
FileTypes ==
  /\ disk \in [dir : {"absent", "unsynced", "durable"},
               file : Record \cup {Absent, Torn}, left : SUBSET (Record \cup {Absent, Torn})]
  /\ write \in [step : Unrenamed \cup {"none", "renamed"}, rec : Record \cup {Absent},
                synced : BOOLEAN, before : SUBSET (Record \cup {Absent, Torn})]
  /\ owed \in SUBSET (Record \cup {Absent, Torn})

\* A write that fails before its rename has what was there to fall back to.
FallsBack ==
  write.step \in Unrenamed =>
    /\ disk.file \in write.before /\ disk.left \subseteq write.before
    /\ disk.dir # "durable" => Absent \in write.before
    /\ Torn \notin write.before

\* Only a synced record is renamed, and the name then shows it.
InOrder ==
  /\ write.step # "none" => write.rec \in Record /\ write.rec \in owed
  /\ write.step = "made" => disk.dir = "unsynced"
  /\ write.step \in {"synced", "renamed"} => write.synced
  /\ write.step = "renamed" => disk.file = write.rec

FileInv == FileTypes /\ OldOrNew /\ FallsBack /\ InOrder

LEMMA FileInvInit == FileInit => FileInv
  BY StateFileAssumption
     DEF FileInit, FileInv, FileTypes, OldOrNew, FallsBack, InOrder, NoWrite, Unrenamed

LEMMA FileInvNext == FileInv /\ [FileNext]_fileVars => FileInv'
<1> SUFFICES ASSUME FileInv, [FileNext]_fileVars PROVE FileInv'
  OBVIOUS
<1> USE StateFileAssumption DEF FileInv, FileTypes, OldOrNew, FallsBack, InOrder,
                                NoWrite, Unrenamed, Step, Settled
<1>1. ASSUME NEW rec \in Record, Begin(rec) PROVE FileInv'
  BY <1>1 DEF Begin
<1>2. CASE OpenDirectory
  BY <1>2 DEF OpenDirectory
<1>3. CASE MakeDirectory
  BY <1>3 DEF MakeDirectory
<1>4. CASE SyncParent
  BY <1>4 DEF SyncParent
<1>5. CASE WriteTemporary
  BY <1>5 DEF WriteTemporary
<1>6. CASE SyncTemporary
  BY <1>6 DEF SyncTemporary
<1>7. CASE Rename
  BY <1>7 DEF Rename
<1>8. CASE SyncDirectory
  BY <1>8 DEF SyncDirectory
<1>9. CASE WriteFails
  BY <1>9 DEF WriteFails
<1>10. CASE Die
  BY <1>10 DEF Die
<1>11. CASE PowerLoss
  BY <1>11 DEF PowerLoss
<1>12. CASE UNCHANGED fileVars
  BY <1>12 DEF fileVars
<1> QED
  BY <1>1, <1>2, <1>3, <1>4, <1>5, <1>6, <1>7, <1>8, <1>9, <1>10, <1>11, <1>12
     DEF FileNext, Writing

\* After any history of writes, failed calls, deaths and losses of power, the
\* file is the last reported record, or one written since: never a mix, never
\* something older (persistence.c:358-491).
THEOREM FileOldOrNew == FileSpec => []OldOrNew
<1>1. FileInv => OldOrNew
  BY DEF FileInv
<1> QED
  BY FileInvInit, FileInvNext, <1>1, PTL DEF FileSpec

\* ---------------------------------------------------------------------------
\* What a frame leaves of what was learnt.

\* The learning of frames: no component is older than the updates counted with it.
Young(l) == l.age <= l.upd

\* What the process has learnt by L it still has by M.
Survives(L, M) ==
  L.classifier => M.classifier /\ M.upd >= L.upd /\ M.ring >= L.ring

\* Nothing of L is lost: neither the process' part nor the samples.
Keeps(L, M) == Survives(L, M) /\ M.samples >= L.samples

LEMMA CappedFacts ==
  ASSUME NEW most \in Nat, NEW n \in 0 .. most
  PROVE  /\ Capped(n + 1, most) \in 0 .. most
         /\ Capped(n + 1, most) >= n
         /\ Capped(n + 1, most) = n + 1 \/ (Capped(n + 1, most) = n /\ n = most)
  BY DEF Capped

LEMMA KeepsTransitive ==
  ASSUME NEW L \in Learning, NEW M \in Learning, NEW N \in Learning,
         Keeps(L, M), Keeps(M, N)
  PROVE  Keeps(L, N)
  BY DEF Keeps, Survives, Learning

LEMMA CalibrationLearns ==
  ASSUME NEW L \in Learning, Young(L), NEW admitted \in BOOLEAN
  PROVE  LET M == UpdateCalibration(L, admitted)
         IN  M \in Learning /\ Young(M) /\ Keeps(L, M)
  BY PreprocessAssumption DEF UpdateCalibration, Capped, Learning, Young, Keeps, Survives

\* The count that a repeated rendering pretends is not what it leaves.
LEMMA PostRenderLearns ==
  ASSUME NEW L \in Learning, Young(L), NEW disagrees \in BOOLEAN, NEW again \in BOOLEAN
  PROVE  LET M == PostRender(L, disagrees, again)
         IN  M \in Learning /\ Young(M) /\ Keeps(L, M)
<1> DEFINE few == [L EXCEPT !.samples = NestedSamples]
           repeated == UpdateCalibration(few, again)
           M == [repeated EXCEPT !.samples = L.samples]
<1>1. few \in Learning /\ Young(few) /\ few.classifier = L.classifier /\ few.upd = L.upd
      /\ few.ring = L.ring
  BY PreprocessAssumption DEF Learning, Young
<1> HIDE DEF few
<1>2. repeated \in Learning /\ Young(repeated) /\ Survives(few, repeated)
  BY <1>1, CalibrationLearns DEF Keeps
<1> HIDE DEF repeated
<1>3. L.ring \in Nat /\ L.upd \in Nat /\ L.samples \in 0 .. MaxSamples /\ MaxSamples \in Nat
  BY PreprocessAssumption DEF Learning
<1>4. M \in Learning /\ Young(M) /\ M.samples = L.samples /\ M.upd = repeated.upd
      /\ M.ring = repeated.ring /\ M.classifier = repeated.classifier
  BY <1>2, <1>3 DEF Learning, Young
<1>5. PostRender(L, disagrees, again) = M \/ PostRender(L, disagrees, again) = L
  BY DEF PostRender, repeated, few
<1> HIDE DEF M
<1>6. Keeps(L, M) /\ Keeps(L, L)
  BY <1>1, <1>2, <1>3, <1>4 DEF Keeps, Survives
<1> QED
  BY <1>4, <1>5, <1>6

\* The length of the history has no part in what is kept.
LEMMA HistoryChanged ==
  ASSUME NEW L \in Learning, Young(L), NEW n \in 0 .. HistoryMax
  PROVE  LET M == [L EXCEPT !.hist = n]
         IN  M \in Learning /\ Young(M) /\ Keeps(L, M) /\ M.hist = n
  BY PreprocessAssumption DEF Learning, Young, Keeps, Survives

LEMMA HistoryLearns ==
  ASSUME NEW L \in Learning, Young(L), NEW masked \in BOOLEAN
  PROVE  LET M == PrepareHistory(L, masked)
         IN  M \in Learning /\ Young(M) /\ Keeps(L, M)
<1> DEFINE l == IF L.samples < 2 THEN [L EXCEPT !.hist = 0] ELSE L
           seeded == [L EXCEPT !.hist = Capped(L.samples, HistorySeed)]
           longer == [l EXCEPT !.hist = Capped(l.hist + 1, HistoryMax)]
<1>1. PrepareHistory(L, masked) =
        IF L.hist = 0 /\ L.samples > 1 THEN seeded ELSE IF masked THEN longer ELSE l
  BY DEF PrepareHistory, UpdateHistory
<1>2. L.hist \in 0 .. HistoryMax /\ L.samples \in Nat /\ HistoryMax \in Nat
      /\ HistorySeed \in Nat /\ HistorySeed <= HistoryMax
  BY PreprocessAssumption DEF Learning
<1>3. Capped(L.samples, HistorySeed) \in 0 .. HistoryMax /\ 0 \in 0 .. HistoryMax
  BY <1>2 DEF Capped
<1>4. seeded \in Learning /\ Young(seeded) /\ Keeps(L, seeded)
  BY <1>3, HistoryChanged
<1>5. l \in Learning /\ Young(l) /\ Keeps(L, l)
  <2>1. Keeps(L, L)
    BY DEF Keeps, Survives, Learning
  <2> QED
    BY <1>3, <2>1, HistoryChanged
<1> HIDE DEF l
<1>6. longer \in Learning /\ Young(longer) /\ Keeps(L, longer)
  <2>1. Capped(l.hist + 1, HistoryMax) \in 0 .. HistoryMax
    BY <1>2, <1>5, CappedFacts DEF Learning
  <2> QED
    BY <1>5, <2>1, HistoryChanged, KeepsTransitive
<1> QED
  BY <1>1, <1>4, <1>5, <1>6

\* The update is counted whatever the gradient, so that no age overtakes it.
LEMMA ComponentLearns ==
  ASSUME NEW L \in Learning, Young(L), NEW active \in BOOLEAN,
         NEW gradient \in {"high", "middle", "low"}
  PROVE  LET M == ComponentClass1(L, active, gradient)
         IN  M \in Learning /\ Young(M) /\ Keeps(L, M)
<1> DEFINE age == CASE gradient = "high" /\ L.age < UpdateMax -> L.age + 1
                    [] gradient = "low" /\ L.age # 0 -> L.age - 1
                    [] OTHER -> L.age
           upd == Capped(L.upd + 1, UpdateMax)
           aged == [L EXCEPT !.age = age, !.upd = upd]
<1>1. ComponentClass1(L, active, gradient) = IF ~active THEN L ELSE aged
  BY DEF ComponentClass1
<1>2. L.age \in 0 .. UpdateMax /\ L.upd \in 0 .. UpdateMax /\ L.age <= L.upd
      /\ UpdateMax \in Nat
  BY PreprocessAssumption DEF Learning, Young
<1>3. age \in 0 .. UpdateMax /\ age <= L.age + 1
  BY <1>2
<1>4. upd \in 0 .. UpdateMax /\ upd >= L.upd /\ (upd = L.upd + 1 \/ upd = UpdateMax)
  BY <1>2, CappedFacts
<1> HIDE DEF age, upd
<1>5. age <= upd
  BY <1>2, <1>3, <1>4
<1>6. aged \in Learning /\ aged.age = age /\ aged.upd = upd /\ aged.samples = L.samples
      /\ aged.ring = L.ring /\ aged.classifier = L.classifier
  BY <1>3, <1>4 DEF Learning
<1> HIDE DEF aged
<1>7. L.ring \in Nat /\ L.samples \in Nat
  BY PreprocessAssumption DEF Learning
<1>8. Young(L) /\ Keeps(L, L)
  BY <1>2, <1>7 DEF Keeps, Survives
<1>9. Young(aged) /\ Survives(L, aged) /\ aged.samples >= L.samples
  BY <1>4, <1>5, <1>6, <1>7 DEF Young, Survives
<1> QED
  BY <1>1, <1>6, <1>8, <1>9 DEF Keeps

LEMMA ClassifyLearns ==
  ASSUME NEW L \in Learning, Young(L)
  PROVE  LET M == Classify(L) IN M \in Learning /\ Young(M) /\ Keeps(L, M)
<1> DEFINE yes == TRUE
           M == [L EXCEPT !.kept = L.ring, !.classifier = yes]
<1>1. Classify(L) = M /\ yes \in BOOLEAN /\ yes
  BY DEF Classify
<1> HIDE DEF yes
<1>2. M \in Learning /\ M.classifier = yes /\ M.age = L.age /\ M.upd = L.upd
      /\ M.ring = L.ring /\ M.samples = L.samples
  BY <1>1 DEF Learning
<1>3. L.ring \in Nat /\ L.upd \in Nat /\ L.samples \in Nat
  BY PreprocessAssumption DEF Learning
<1> HIDE DEF M
<1>4. M.upd >= L.upd /\ M.ring >= L.ring /\ M.samples >= L.samples
  BY <1>2, <1>3
<1> QED
  BY <1>1, <1>2, <1>4 DEF Young, Keeps, Survives

LEMMA ExtractionLearns ==
  ASSUME NEW L \in Learning, Young(L), NEW covered \in BOOLEAN
  PROVE  LET M == UpdateExtraction(L, covered)
         IN  M \in Learning /\ Young(M) /\ Keeps(L, M)
  BY PreprocessAssumption DEF UpdateExtraction, Capped, Learning, Young, Keeps, Survives

\* A frame stays within the limits, ages no component past its updates, and
\* takes nothing back.
LEMMA FrameLearns ==
  ASSUME NEW L \in Learning, Young(L), NEW M \in Preprocessed(L)
  PROVE  M \in Learning /\ Young(M) /\ Keeps(L, M)
<1>1. PICK new \in BOOLEAN, disagrees \in BOOLEAN, again \in BOOLEAN, masked \in BOOLEAN,
           active \in BOOLEAN, covered \in BOOLEAN, gradient \in {"high", "middle", "low"} :
        M = UpdateExtraction(
              Classify(ComponentClass1(
                PrepareHistory(PostRender(UpdateCalibration(L, new), disagrees, again), masked),
                active, gradient)), covered)
  BY DEF Preprocessed
<1> DEFINE a == UpdateCalibration(L, new)
           b == PostRender(a, disagrees, again)
           c == PrepareHistory(b, masked)
           d == ComponentClass1(c, active, gradient)
           e == Classify(d)
<1>2. a \in Learning /\ Young(a) /\ Keeps(L, a)
  BY CalibrationLearns
<1>3. M = UpdateExtraction(e, covered)
  BY <1>1
<1> HIDE DEF a
<1>4. b \in Learning /\ Young(b) /\ Keeps(a, b)
  BY <1>2, PostRenderLearns
<1> HIDE DEF b
<1>5. c \in Learning /\ Young(c) /\ Keeps(b, c)
  BY <1>4, HistoryLearns
<1> HIDE DEF c
<1>6. d \in Learning /\ Young(d) /\ Keeps(c, d)
  BY <1>5, ComponentLearns
<1> HIDE DEF d
<1>7. e \in Learning /\ Young(e) /\ Keeps(d, e)
  BY <1>6, ClassifyLearns
<1> HIDE DEF e
<1>8. M \in Learning /\ Young(M) /\ Keeps(e, M)
  BY <1>3, <1>7, ExtractionLearns
<1> QED
  BY <1>2, <1>4, <1>5, <1>6, <1>7, <1>8, KeepsTransitive

LEMMA UnlearntFacts ==
  /\ Unlearnt \in Learning /\ Young(Unlearnt) /\ ~Unlearnt.classifier
  /\ Unlearnt.samples = 0
  BY PreprocessAssumption DEF Unlearnt, Learning, Young

LEMMA SavedFacts ==
  ASSUME NEW L \in Learning, Young(L)
  PROVE  /\ Saved(L) \in LearningRecord /\ Young(Saved(L)) /\ Saved(L).samples = L.samples
         /\ WithinFormat(L)
  BY DEF Saved, LearningRecord, Learning, Young, WithinFormat

LEMMA RestoredFacts ==
  ASSUME NEW rec \in LearningRecord, Young(rec)
  PROVE  /\ Restored(rec) \in Learning /\ Young(Restored(rec))
         /\ Restored(rec).samples = rec.samples
  BY DEF Restored, LearningRecord, Learning, Young

\* What is taken over is the process' part, ages and updates together.
LEMMA TransferFacts ==
  ASSUME NEW L \in Learning, Young(L), NEW process \in Learning, Young(process)
  PROVE  LET M == TransferProcessState(L, process)
         IN  /\ M \in Learning /\ Young(M) /\ M.samples = L.samples
             /\ Survives(process, M)
             /\ M.classifier => process.classifier \/ L.classifier
<1> DEFINE yes == TRUE
           M == [L EXCEPT !.hist = process.hist, !.upd = process.upd, !.age = process.age,
                          !.ring = process.ring, !.classifier = yes]
<1>1. TransferProcessState(L, process) = (IF process.classifier THEN M ELSE L)
      /\ yes \in BOOLEAN /\ yes
  BY DEF TransferProcessState
<1> HIDE DEF yes
<1>2. M \in Learning /\ M.samples = L.samples /\ M.upd = process.upd /\ M.age = process.age
      /\ M.ring = process.ring /\ M.classifier = yes
  BY <1>1 DEF Learning
<1>3. process.upd \in Nat /\ process.ring \in Nat
  BY PreprocessAssumption DEF Learning
<1> HIDE DEF M
<1>4. Young(M) /\ M.upd >= process.upd /\ M.ring >= process.ring
  BY <1>2, <1>3 DEF Young
<1> QED
  BY <1>1, <1>2, <1>4 DEF Survives

\* ---------------------------------------------------------------------------
\* The invariant of Store.

LearningGenerations ==
  [kind : {"none", "retained", "live"}, L : Learning, init : BOOLEAN,
   refresh : BOOLEAN, notReady : BOOLEAN, kept : BOOLEAN]

StoreTypes ==
  /\ gen \in LearningGenerations
  /\ phase \in {"idle", "setup", "publishing", "frame", "ending", "saving"}
  /\ setup \in LearningRecord /\ pending \in Learning
  /\ blind \in BOOLEAN /\ faults \in 0 .. MaxFaults /\ frames \in 0 .. MaxFrames

\* Which of generation, delivery and write belong to which phase of an action.
\* What a classifier has learnt is either a generation's that later setups keep,
\* or is waiting for the next one.
Stages ==
  /\ phase # "idle" => gen.kind = "live"
  /\ phase \in {"publishing", "frame", "ending", "saving"} => gen.init
  /\ write.step # "none" => phase \in {"publishing", "saving"}
  /\ gen.L.classifier => gen.kind # "none" /\ (gen.kind = "retained" \/ gen.init \/ gen.kept)
  /\ phase = "ending" => pending = gen.L
  /\ phase = "setup" /\ SetupRequired => setup.samples = gen.L.samples

\* No component is older than its updates, wherever the learning is kept, and
\* whatever a loss of power may leave of the file.
Ages ==
  /\ Young(gen.L) /\ Young(setup) /\ Young(pending)
  /\ \A rec \in Record \cap ({disk.file, write.rec} \cup disk.left) : Young(rec)

\* A generation whose samples were read has no fewer than the file.
Samples ==
  ~blind =>
    /\ disk.file \in Record /\ (gen.init \/ phase = "setup")
         => gen.L.samples >= disk.file.samples
    /\ write.step # "none" => gen.L.samples >= write.rec.samples
    /\ write.step # "none" /\ disk.file \in Record
         => write.rec.samples >= disk.file.samples

StoreInvariant == FileInv /\ StoreTypes /\ Stages /\ Ages /\ Samples

LEMMA InvInit == StoreInit => StoreInvariant
<1> SUFFICES ASSUME StoreInit PROVE StoreInvariant
  OBVIOUS
<1> USE DEF StoreInit
<1>1. FileInv
  BY FileInvInit
<1>2. gen.L = Unlearnt /\ gen.kind = "none" /\ setup = Saved(Unlearnt) /\ pending = Unlearnt
  BY DEF EmptyGeneration, NoPending, DefaultRecord
<1>3. StoreTypes
  <2>1. gen \in LearningGenerations
    BY UnlearntFacts DEF LearningGenerations, EmptyGeneration
  <2>2. blind \in BOOLEAN
    OBVIOUS
  <2>3. faults \in 0 .. MaxFaults /\ frames \in 0 .. MaxFrames
    BY StoreAssumption
  <2>4. setup \in LearningRecord /\ pending \in Learning
    BY <1>2, UnlearntFacts, SavedFacts
  <2> QED
    BY <2>1, <2>2, <2>3, <2>4 DEF StoreTypes
<1>4. Stages
  BY <1>2, UnlearntFacts DEF Stages, FileInit, NoWrite
<1>5. Ages
  BY <1>2, UnlearntFacts, SavedFacts, StateFileAssumption DEF Ages, FileInit, NoWrite
<1>6. Samples
  BY StateFileAssumption DEF Samples, FileInit, NoWrite
<1> QED
  BY <1>1, <1>3, <1>4, <1>5, <1>6 DEF StoreInvariant

\* Every step of Store is one of the file, or none: what is begun is a record.
LEMMA FileStep == StoreInvariant /\ [StoreNext]_storeVars => [FileNext]_fileVars
<1> SUFFICES ASSUME StoreInvariant, [StoreNext]_storeVars PROVE [FileNext]_fileVars
  OBVIOUS
<1>1. setup \in Record /\ Saved(pending) \in Record
  BY SavedFacts, StoreAssumption DEF StoreInvariant, StoreTypes, Ages
<1>2. CASE SetupAdmitted
  BY <1>1, <1>2 DEF SetupAdmitted, FileNext
<1>3. CASE ActionSaves
  BY <1>1, <1>3 DEF ActionSaves, FileNext
<1>4. CASE WriteStep \/ WriteFailed \/ Crash
  BY <1>4 DEF WriteStep, WriteFailed, Crash, FileNext
<1>5. ASSUME \/ Acquire \/ RetainProcessState \/ (\E marked \in BOOLEAN : DeliverFrame(marked))
             \/ Skip \/ SetupRefused \/ SetupReady \/ SetupPublished
             \/ FrameDropped \/ FrameInstalled \/ ActionFails \/ ActionSaved
      PROVE  UNCHANGED fileVars
  BY <1>5 DEF Acquire, RetainProcessState, DeliverFrame, Skip, SetupRefused, SetupReady,
     SetupPublished, FrameDropped, FrameInstalled, ActionFails, ActionSaved
<1> QED
  BY <1>2, <1>3, <1>4, <1>5 DEF StoreNext, storeVars

\* The samples of a step that leaves the file alone.
LEMMA FileUnchanged ==
  ASSUME StoreInvariant, UNCHANGED fileVars, Young(gen'.L), Young(setup'), Young(pending'),
         ~blind' => \/ disk.file \notin Record
                    \/ ~gen'.init /\ phase' # "setup"
                    \/ gen'.L.samples >= disk.file.samples,
         ~blind' /\ write.step # "none" => ~blind /\ gen'.L.samples = gen.L.samples
  PROVE  FileInv' /\ Ages' /\ Samples'
<1>1. FileInv'
  BY FileInvNext DEF StoreInvariant
<1>2. Ages'
  BY DEF StoreInvariant, Ages, fileVars
<1>3. Samples'
  BY DEF StoreInvariant, Samples, fileVars
<1> QED
  BY <1>1, <1>2, <1>3

\* The generation.
LEMMA AcquireStep == ASSUME StoreInvariant, Acquire PROVE StoreInvariant'
<1>1. /\ phase = "idle" /\ write.step = "none" /\ gen.L \in Learning /\ Young(gen.L)
      /\ Young(setup) /\ Young(pending)
  BY DEF StoreInvariant, StoreTypes, Stages, Ages, Acquire, LearningGenerations
<1> DEFINE M == TransferProcessState(Unlearnt, gen.L)
<1>2. M \in Learning /\ Young(M)
  BY <1>1, UnlearntFacts, TransferFacts
<1> HIDE DEF M
<1>3. /\ gen' \in LearningGenerations
      /\ gen'.kind = "live" /\ ~gen'.init
      /\ \/ gen'.L = Unlearnt
         \/ gen'.L = M /\ gen'.kept
  <2>1. CASE gen.kind = "none"
    BY <2>1, UnlearntFacts DEF Acquire, EmptyGeneration, LearningGenerations
  <2>2. CASE gen.kind # "none"
    <3>1. gen' = [EmptyGeneration EXCEPT !.kind = "live", !.L = M, !.refresh = TRUE, !.kept = TRUE]
      BY <2>2 DEF Acquire, M
    <3> QED
      BY <3>1, <1>2 DEF EmptyGeneration, LearningGenerations
  <2> QED
    BY <2>1, <2>2
<1>4. UNCHANGED <<fileVars, phase, setup, pending, blind, faults, frames>>
  BY DEF Acquire
<1>5. StoreTypes'
  BY <1>3, <1>4 DEF StoreInvariant, StoreTypes
<1>6. Stages'
  BY <1>1, <1>3, <1>4, UnlearntFacts DEF Stages, fileVars
<1>7. FileInv' /\ Ages' /\ Samples'
  BY <1>1, <1>2, <1>3, <1>4, UnlearntFacts, FileUnchanged
<1> QED
  BY <1>5, <1>6, <1>7 DEF StoreInvariant

LEMMA RetainStep == ASSUME StoreInvariant, RetainProcessState PROVE StoreInvariant'
<1>1. /\ phase = "idle" /\ write.step = "none" /\ gen.L \in Learning /\ Young(gen.L)
      /\ Young(setup) /\ Young(pending)
  BY DEF StoreInvariant, StoreTypes, Stages, Ages, RetainProcessState, LearningGenerations
<1> DEFINE M == TransferProcessState(Unlearnt, gen.L)
<1>2. M \in Learning /\ Young(M)
  BY <1>1, UnlearntFacts, TransferFacts
<1> HIDE DEF M
<1>3. gen' = [EmptyGeneration EXCEPT !.kind = "retained", !.L = M]
      /\ UNCHANGED <<fileVars, phase, setup, pending, blind, faults, frames>>
  BY DEF RetainProcessState, M
<1>4. /\ gen' \in LearningGenerations
      /\ gen'.kind = "retained" /\ gen'.L = M /\ ~gen'.init
  BY <1>2, <1>3 DEF EmptyGeneration, LearningGenerations
<1>5. StoreTypes'
  BY <1>3, <1>4 DEF StoreInvariant, StoreTypes
<1>6. Stages'
  BY <1>1, <1>3, <1>4 DEF Stages, fileVars
<1>7. FileInv' /\ Ages' /\ Samples'
  BY <1>1, <1>2, <1>3, <1>4, FileUnchanged
<1> QED
  BY <1>5, <1>6, <1>7 DEF StoreInvariant

\* What a restore makes of the generation: the samples of the record, and the
\* process' part of what it knew.
LEMMA RestoreFacts ==
  ASSUME StoreInvariant, NEW rec \in LearningRecord, Young(rec), NEW marked \in BOOLEAN,
         NEW failed \in BOOLEAN, Restore(rec, marked, failed)
  PROVE  /\ gen' \in LearningGenerations
         /\ gen'.kind = gen.kind /\ gen'.init = gen.init /\ gen'.kept = gen.kept
         /\ Young(gen'.L) /\ gen'.L.samples = rec.samples
         /\ gen'.L.classifier => gen.init \/ gen.kept
         /\ gen.init \/ gen.kept => Survives(gen.L, gen'.L)
<1> DEFINE R == Restored(rec)
           T == TransferProcessState(R, gen.L)
           M == IF gen.init \/ gen.kept THEN T ELSE R
           marks == gen.refresh \/ marked
<1>1. R \in Learning /\ Young(R) /\ R.samples = rec.samples
  BY RestoredFacts
<1>2. ~R.classifier
  BY DEF Restored
<1>3. gen.L \in Learning /\ Young(gen.L)
      /\ gen \in LearningGenerations
  BY DEF StoreInvariant, StoreTypes, Ages, LearningGenerations
<1>4. gen' = [gen EXCEPT !.L = M, !.refresh = marks]
  BY DEF Restore
<1> HIDE DEF R
<1>5. T \in Learning /\ Young(T) /\ T.samples = rec.samples /\ Survives(gen.L, T)
  BY <1>1, <1>3, TransferFacts
<1> HIDE DEF T
<1>6. M \in Learning /\ Young(M) /\ M.samples = rec.samples
      /\ (gen.init \/ gen.kept => Survives(gen.L, M))
      /\ (M.classifier => gen.init \/ gen.kept)
  BY <1>1, <1>2, <1>5
<1>7. marks \in BOOLEAN
  BY <1>3
<1> HIDE DEF M, marks
<1>8. /\ gen' \in LearningGenerations
      /\ gen'.kind = gen.kind /\ gen'.init = gen.init /\ gen'.kept = gen.kept /\ gen'.L = M
  BY <1>3, <1>4, <1>6, <1>7 DEF LearningGenerations
<1> QED
  BY <1>6, <1>8

\* The frame.
LEMMA DeliverStep ==
  ASSUME StoreInvariant, NEW marked \in BOOLEAN, DeliverFrame(marked)
  PROVE  StoreInvariant'
<1>1. /\ phase = "idle" /\ gen.kind = "live" /\ phase' = "setup" /\ write.step = "none"
      /\ UNCHANGED <<fileVars, pending, frames>>
      /\ gen \in LearningGenerations /\ gen.L \in Learning /\ Young(gen.L) /\ Young(setup)
      /\ Young(pending) /\ faults \in 0 .. MaxFaults /\ frames \in 0 .. MaxFrames
      /\ setup \in LearningRecord /\ pending \in Learning /\ blind \in BOOLEAN
  BY DEF StoreInvariant, StoreTypes, Stages, Ages, DeliverFrame, LearningGenerations
<1>2. CASE gen.init /\ ~gen.refresh /\ ~marked
  <2>1. UNCHANGED <<gen, setup, blind, faults>>
    BY <1>2 DEF DeliverFrame
  <2>2. StoreTypes'
    BY <1>1, <2>1 DEF StoreTypes
  <2>3. Stages'
    BY <1>1, <1>2, <2>1 DEF StoreInvariant, Stages, SetupRequired, fileVars
  <2>4. FileInv' /\ Ages' /\ Samples'
    <3>1. FileInv'
      BY <1>1, FileInvNext DEF StoreInvariant
    <3>2. Ages'
      BY <1>1, <2>1 DEF StoreInvariant, Ages, fileVars
    <3>3. Samples'
      BY <1>1, <1>2, <2>1 DEF StoreInvariant, Samples, fileVars
    <3> QED
      BY <3>1, <3>2, <3>3
  <2> QED
    BY <2>2, <2>3, <2>4 DEF StoreInvariant
<1>3. CASE ~(gen.init /\ ~gen.refresh /\ ~marked)
  <2>1. PICK rec \in LearningRecord, failed \in BOOLEAN :
          /\ Young(rec) /\ Restore(rec, marked, failed)
          /\ failed \/ disk.file \notin Record \/ rec = disk.file
          /\ faults' \in 0 .. MaxFaults
    <3>1. DefaultRecord \in LearningRecord /\ Young(DefaultRecord)
      BY UnlearntFacts, SavedFacts DEF DefaultRecord
    <3>2. disk.file \in Record => disk.file \in LearningRecord /\ Young(disk.file)
      BY StoreAssumption DEF StoreInvariant, Ages
    <3>3. CASE /\ Restore(IF disk.file \in Record THEN disk.file ELSE DefaultRecord,
                           marked, FALSE)
               /\ UNCHANGED faults
      BY <1>1, <3>1, <3>2, <3>3
    <3>4. CASE Fault /\ Restore(DefaultRecord, marked, TRUE)
      <4>1. faults' \in 0 .. MaxFaults
        BY <1>1, <3>4, StoreAssumption DEF Fault
      <4> QED
        BY <3>1, <3>4, <4>1
    <3> QED
      BY <1>3, <3>3, <3>4 DEF DeliverFrame
  <2>2. /\ gen' \in LearningGenerations
        /\ gen'.kind = gen.kind /\ gen'.init = gen.init /\ gen'.kept = gen.kept
        /\ Young(gen'.L) /\ gen'.L.samples = rec.samples
        /\ gen'.L.classifier => gen.init \/ gen.kept
    BY <2>1, RestoreFacts
  <2>3. setup' = rec /\ blind' = failed
    BY <2>1 DEF Restore
  <2>4. rec.samples \in Nat
    BY PreprocessAssumption DEF LearningRecord
  <2>5. StoreTypes'
    BY <1>1, <2>1, <2>2, <2>3 DEF StoreTypes
  <2>6. Stages'
    BY <1>1, <2>2, <2>3 DEF Stages, fileVars
  <2>7. FileInv' /\ Ages' /\ Samples'
    BY <1>1, <2>1, <2>2, <2>3, <2>4, FileUnchanged DEF fileVars
  <2> QED
    BY <2>5, <2>6, <2>7 DEF StoreInvariant
<1> QED
  BY <1>2, <1>3

\* A setup that is refused or skipped leaves what the generation knows.
LEMMA SetupEnds ==
  ASSUME StoreInvariant, Skip \/ SetupRefused \/ SetupReady \/ SetupPublished \/ FrameDropped
               \/ ActionSaved
  PROVE  StoreInvariant'
<1>1. /\ UNCHANGED <<fileVars, pending, blind, faults, frames>>
      /\ setup' = setup \/ setup' = DefaultRecord
      /\ phase' \in {"idle", "frame"} /\ phase \in {"setup", "publishing", "frame", "saving"}
      /\ phase' = "frame" => phase = "publishing" \/ (phase = "setup" /\ ~SetupRequired)
      /\ write.step = "none"
  BY DEF StoreInvariant, Stages, Skip, SetupRefused, SetupReady, SetupPublished, FrameDropped,
         ActionSaved
<1>2. /\ gen \in LearningGenerations /\ Young(gen.L) /\ Young(setup) /\ Young(pending)
      /\ setup \in LearningRecord /\ gen.kind = "live"
  BY <1>1 DEF StoreInvariant, StoreTypes, Ages, Stages
<1>3. gen' \in LearningGenerations /\ gen'.kind = gen.kind /\ gen'.init = gen.init
      /\ gen'.kept = gen.kept /\ gen'.L = gen.L
  <2>1. CASE UNCHANGED gen
    BY <1>2, <2>1
  <2>2. CASE SetupRefused
    <3> DEFINE no == FALSE
               missing == gen.init
    <3>1. no \in BOOLEAN /\ missing \in BOOLEAN
      BY <1>2 DEF LearningGenerations
    <3>2. gen' = [gen EXCEPT !.refresh = no, !.notReady = missing]
      BY <2>2 DEF SetupRefused
    <3> HIDE DEF no, missing
    <3> QED
      BY <1>2, <3>1, <3>2 DEF LearningGenerations
  <2> QED
    BY <2>1, <2>2 DEF Skip, SetupReady, SetupPublished, FrameDropped, ActionSaved
<1>4. setup' \in LearningRecord /\ Young(setup')
  BY <1>1, <1>2, UnlearntFacts, SavedFacts DEF DefaultRecord
<1>5. StoreTypes'
  BY <1>1, <1>3, <1>4 DEF StoreInvariant, StoreTypes
<1>6. Stages'
  BY <1>1, <1>2, <1>3 DEF StoreInvariant, Stages, SetupRequired, fileVars
<1>7. FileInv'
  BY <1>1, FileInvNext DEF StoreInvariant
<1>8. Ages'
  BY <1>1, <1>2, <1>3, <1>4 DEF StoreInvariant, Ages, fileVars
<1>9. Samples'
  BY <1>1, <1>3 DEF StoreInvariant, Samples, fileVars
<1> QED
  BY <1>5, <1>6, <1>7, <1>8, <1>9 DEF StoreInvariant

\* An admitted setup begins to publish a record of the samples it restored.
LEMMA SetupAdmittedStep == ASSUME StoreInvariant, SetupAdmitted PROVE StoreInvariant'
<1>1. /\ phase = "setup" /\ phase' = "publishing" /\ SetupRequired /\ gen.kind = "live"
      /\ UNCHANGED <<pending, blind, faults, frames, disk>>
      /\ setup' = DefaultRecord /\ setup.samples = gen.L.samples
      /\ write'.step = "start" /\ write'.rec = setup
      /\ gen \in LearningGenerations /\ Young(gen.L) /\ Young(setup) /\ setup \in LearningRecord
  BY DEF StoreInvariant, StoreTypes, Stages, Ages, SetupAdmitted, Begin
<1>2. /\ gen' \in LearningGenerations /\ gen'.kind = gen.kind /\ gen'.init /\ gen'.L = gen.L
  <2> DEFINE yes == TRUE
             no == FALSE
  <2>1. yes \in BOOLEAN /\ no \in BOOLEAN /\ yes
    OBVIOUS
  <2>2. gen' = [gen EXCEPT !.init = yes, !.refresh = no, !.notReady = no]
    BY DEF SetupAdmitted
  <2> HIDE DEF yes, no
  <2>3. gen' \in LearningGenerations /\ gen'.kind = gen.kind /\ gen'.init = yes /\ gen'.L = gen.L
    BY <1>1, <2>1, <2>2 DEF LearningGenerations
  <2> QED
    BY <2>1, <2>3
<1>3. setup' \in LearningRecord /\ Young(setup')
  BY <1>1, UnlearntFacts, SavedFacts DEF DefaultRecord
<1>4. StoreTypes'
  BY <1>1, <1>2, <1>3 DEF StoreInvariant, StoreTypes
<1>5. Stages'
  BY <1>1, <1>2 DEF Stages
<1>6. FileInv'
  BY FileStep, FileInvNext DEF StoreInvariant, StoreNext
<1>7. Ages'
  BY <1>1, <1>2, <1>3 DEF StoreInvariant, Ages
<1>8. Samples'
  <2>1. setup.samples \in Nat
    BY <1>1, PreprocessAssumption DEF LearningRecord
  <2> QED
    BY <1>1, <1>2, <2>1 DEF StoreInvariant, Samples
<1> QED
  BY <1>4, <1>5, <1>6, <1>7, <1>8 DEF StoreInvariant

LEMMA FrameInstalledStep == ASSUME StoreInvariant, FrameInstalled PROVE StoreInvariant'
<1>1. /\ phase = "frame" /\ gen.kind = "live" /\ gen.init /\ write.step = "none"
      /\ UNCHANGED <<fileVars, setup, blind, faults>>
      /\ gen \in LearningGenerations /\ gen.L \in Learning /\ Young(gen.L) /\ Young(setup)
      /\ Young(pending) /\ pending \in Learning
  BY DEF StoreInvariant, StoreTypes, Stages, Ages, FrameInstalled, LearningGenerations
<1>2. PICK L \in Preprocessed(gen.L) :
        /\ gen' = [gen EXCEPT !.L = L]
        /\ \/ phase' = "idle" /\ UNCHANGED pending
           \/ phase' = "ending" /\ pending' = L
  BY DEF FrameInstalled
<1>3. L \in Learning /\ Young(L) /\ Keeps(gen.L, L)
  BY <1>1, FrameLearns
<1>4. gen' \in LearningGenerations /\ gen'.kind = gen.kind /\ gen'.init = gen.init /\ gen'.L = L
  BY <1>1, <1>2, <1>3 DEF LearningGenerations
<1>5. Young(pending') /\ pending' \in Learning
  BY <1>1, <1>2, <1>3
<1>6. frames' \in 0 .. MaxFrames
  BY StoreAssumption DEF FrameInstalled, StoreInvariant, StoreTypes
<1>7. StoreTypes'
  BY <1>1, <1>2, <1>4, <1>5, <1>6 DEF StoreInvariant, StoreTypes
<1>8. Stages'
  BY <1>1, <1>2, <1>4 DEF Stages, fileVars
<1>9. ~blind' /\ disk.file \in Record => gen'.L.samples >= disk.file.samples
  <2> SUFFICES ASSUME ~blind, disk.file \in Record PROVE L.samples >= disk.file.samples
    BY <1>1, <1>4
  <2>1. gen.L.samples >= disk.file.samples
    BY <1>1 DEF StoreInvariant, Samples
  <2>2. L.samples >= gen.L.samples
    BY <1>3 DEF Keeps
  <2>3. L.samples \in Nat /\ gen.L.samples \in Nat /\ disk.file.samples \in Nat
    BY <1>1, <1>3, StoreAssumption, PreprocessAssumption DEF Learning, LearningRecord
  <2> QED
    BY <2>1, <2>2, <2>3
<1>10. FileInv' /\ Ages' /\ Samples'
  BY <1>1, <1>3, <1>4, <1>5, <1>9, FileUnchanged
<1> QED
  BY <1>7, <1>8, <1>10 DEF StoreInvariant

\* The end of the action.
LEMMA ActionFailsStep == ASSUME StoreInvariant, ActionFails PROVE StoreInvariant'
<1>1. /\ phase = "ending" /\ phase' = "idle" /\ pending' = Unlearnt /\ write.step = "none"
      /\ UNCHANGED <<fileVars, gen, setup, blind, faults, frames>>
  BY DEF StoreInvariant, Stages, ActionFails, NoPending
<1>2. StoreTypes'
  BY <1>1, UnlearntFacts DEF StoreInvariant, StoreTypes
<1>3. Stages'
  BY <1>1 DEF StoreInvariant, Stages, fileVars
<1>4. FileInv'
  BY <1>1, FileInvNext DEF StoreInvariant
<1>5. Ages'
  BY <1>1, UnlearntFacts DEF StoreInvariant, Ages, fileVars
<1>6. Samples'
  BY <1>1 DEF StoreInvariant, Samples, fileVars
<1> QED
  BY <1>2, <1>3, <1>4, <1>5, <1>6 DEF StoreInvariant

\* What is saved is what the generation still knows.
LEMMA ActionSavesStep == ASSUME StoreInvariant, ActionSaves PROVE StoreInvariant'
<1>1. /\ phase = "ending" /\ phase' = "saving" /\ pending' = Unlearnt
      /\ gen.kind = "live" /\ gen.init /\ pending = gen.L
      /\ UNCHANGED <<gen, setup, blind, faults, frames>>
      /\ pending \in Learning /\ Young(pending)
  BY DEF StoreInvariant, StoreTypes, Stages, Ages, ActionSaves, NoPending
<1>2. /\ Saved(pending) \in LearningRecord /\ Young(Saved(pending))
      /\ Saved(pending).samples = gen.L.samples /\ WithinFormat(pending)
  BY <1>1, SavedFacts
<1>3. write'.step = "start" /\ write'.rec = Saved(pending) /\ disk' = disk
  BY <1>2 DEF ActionSaves, Begin
<1>4. StoreTypes'
  BY <1>1, UnlearntFacts DEF StoreInvariant, StoreTypes
<1>5. Stages'
  BY <1>1 DEF StoreInvariant, Stages
<1>6. FileInv'
  BY FileStep, FileInvNext DEF StoreInvariant, StoreNext
<1>7. Ages'
  BY <1>1, <1>2, <1>3, UnlearntFacts DEF StoreInvariant, Ages
<1>8. Samples'
  <2>1. gen.L.samples \in Nat
    BY <1>1, PreprocessAssumption DEF Learning
  <2> QED
    BY <1>1, <1>2, <1>3, <2>1 DEF StoreInvariant, Samples
<1> QED
  BY <1>4, <1>5, <1>6, <1>7, <1>8 DEF StoreInvariant

\* What the steps of a write do to the file, as far as samples and ages go: it
\* is left alone, or shows the record of the write, and so may a loss of power.
LEMMA WritingFacts ==
  ASSUME FileInv, Writing \/ WriteFails
  PROVE  /\ write.step # "none" /\ write.rec \in Record
         /\ write'.step # "none" => write'.rec = write.rec
         /\ disk'.file = disk.file \/ disk'.file = write.rec
         /\ write'.rec = write.rec \/ write'.rec = Absent
         /\ disk'.left \subseteq disk.left \cup {write.rec, Torn}
<1> USE DEF FileInv, FileTypes, InOrder, Step, NoWrite, Settled
<1>1. CASE WriteFails
  BY <1>1 DEF WriteFails
<1>2. CASE OpenDirectory \/ MakeDirectory \/ SyncParent \/ WriteTemporary
  BY <1>2 DEF OpenDirectory, MakeDirectory, SyncParent, WriteTemporary
<1>3. CASE SyncTemporary
  BY <1>3 DEF SyncTemporary
<1>4. CASE Rename
  BY <1>4 DEF Rename
<1>5. CASE SyncDirectory
  BY <1>5 DEF SyncDirectory
<1> QED
  BY <1>1, <1>2, <1>3, <1>4, <1>5 DEF Writing

LEMMA WriteStepStep ==
  ASSUME StoreInvariant, WriteStep \/ WriteFailed
  PROVE  StoreInvariant'
<1>1. /\ Writing \/ WriteFails
      /\ UNCHANGED <<gen, phase, setup, pending, blind, frames>>
      /\ faults' \in 0 .. MaxFaults
  <2>1. faults \in 0 .. MaxFaults
    BY DEF StoreInvariant, StoreTypes
  <2> QED
    BY <2>1, StoreAssumption DEF WriteStep, WriteFailed, engineVars, Fault
<1>2. /\ write.step # "none" /\ write.rec \in Record
      /\ write'.step # "none" => write'.rec = write.rec
      /\ disk'.file = disk.file \/ disk'.file = write.rec
      /\ write'.rec = write.rec \/ write'.rec = Absent
      /\ disk'.left \subseteq disk.left \cup {write.rec, Torn}
  BY <1>1, WritingFacts DEF StoreInvariant
<1>3. StoreTypes'
  BY <1>1 DEF StoreInvariant, StoreTypes
<1>4. Stages'
  BY <1>1, <1>2 DEF StoreInvariant, Stages, SetupRequired
<1>5. FileInv'
  BY FileStep, FileInvNext DEF StoreInvariant, StoreNext
<1>6. Ages'
  BY <1>1, <1>2, StateFileAssumption DEF StoreInvariant, Ages
<1>7. Samples'
  <2>1. write.rec.samples \in Nat
    BY <1>2, StoreAssumption, PreprocessAssumption DEF LearningRecord
  <2> QED
    BY <1>1, <1>2, <2>1 DEF StoreInvariant, Samples
<1> QED
  BY <1>3, <1>4, <1>5, <1>6, <1>7 DEF StoreInvariant

\* A death takes what was learnt, whatever is left of the file.
LEMMA CrashStep == ASSUME StoreInvariant, Crash PROVE StoreInvariant'
<1>1. /\ gen' = EmptyGeneration /\ phase' = "idle" /\ setup' = DefaultRecord
      /\ pending' = Unlearnt /\ blind' = FALSE /\ frames' = frames
      /\ gen'.L = Unlearnt /\ gen'.kind = "none" /\ ~gen'.init
  BY DEF Crash, Forget, NoPending, EmptyGeneration
<1>2. /\ write'.step = "none" /\ write'.rec = Absent
      /\ disk'.left \subseteq disk.left \cup {Absent}
      /\ disk'.file \in {disk.file, Absent} \cup disk.left
  BY DEF StoreInvariant, FileInv, FileTypes, Crash, Die, PowerLoss, NoWrite
<1>3. faults' \in 0 .. MaxFaults
  BY StoreAssumption DEF StoreInvariant, StoreTypes, Crash, Fault
<1>4. gen' \in LearningGenerations
  BY <1>1, UnlearntFacts DEF EmptyGeneration, LearningGenerations
<1>5. setup' \in LearningRecord /\ Young(setup')
  BY <1>1, UnlearntFacts, SavedFacts DEF DefaultRecord
<1>6. StoreTypes'
  <2>1. blind' \in BOOLEAN /\ frames' \in 0 .. MaxFrames
    BY <1>1 DEF StoreInvariant, StoreTypes
  <2> QED
    BY <1>1, <1>3, <1>4, <1>5, <2>1, UnlearntFacts DEF StoreTypes
<1>7. Stages'
  BY <1>1, <1>2, UnlearntFacts DEF Stages
<1>8. FileInv'
  BY FileStep, FileInvNext DEF StoreInvariant, StoreNext
<1>9. Ages'
  BY <1>1, <1>2, <1>5, UnlearntFacts, StateFileAssumption DEF StoreInvariant, Ages
<1>10. Samples'
  BY <1>1, <1>2 DEF Samples
<1> QED
  BY <1>6, <1>7, <1>8, <1>9, <1>10 DEF StoreInvariant

LEMMA InvNext == StoreInvariant /\ [StoreNext]_storeVars => StoreInvariant'
<1> SUFFICES ASSUME StoreInvariant, [StoreNext]_storeVars PROVE StoreInvariant'
  OBVIOUS
<1>1. CASE Acquire \/ RetainProcessState
  BY <1>1, AcquireStep, RetainStep
<1>2. CASE \E marked \in BOOLEAN : DeliverFrame(marked)
  BY <1>2, DeliverStep
<1>3. CASE \/ Skip \/ SetupRefused \/ SetupReady \/ SetupPublished \/ FrameDropped
           \/ ActionSaved
  BY <1>3, SetupEnds
<1>4. CASE SetupAdmitted \/ FrameInstalled
  BY <1>4, SetupAdmittedStep, FrameInstalledStep
<1>5. CASE ActionFails \/ ActionSaves
  BY <1>5, ActionFailsStep, ActionSavesStep
<1>6. CASE WriteStep \/ WriteFailed \/ Crash
  BY <1>6, WriteStepStep, CrashStep
<1>7. CASE UNCHANGED storeVars
  <2>1. FileInv'
    BY <1>7, FileInvNext DEF StoreInvariant, storeVars
  <2>2. StoreTypes' /\ Stages'
    BY <1>7 DEF StoreInvariant, storeVars, engineVars, fileVars, StoreTypes, Stages, SetupRequired
  <2>3. Ages' /\ Samples'
    BY <1>7 DEF StoreInvariant, storeVars, engineVars, fileVars, Ages, Samples
  <2> QED
    BY <2>1, <2>2, <2>3 DEF StoreInvariant
<1> QED
  BY <1>1, <1>2, <1>3, <1>4, <1>5, <1>6, <1>7 DEF StoreNext

LEMMA InvHolds == StoreSpec => []StoreInvariant
  BY InvInit, InvNext, PTL DEF StoreSpec

\* ---------------------------------------------------------------------------
\* The theorems about Store.

\* Every limit of the preprocessing is kept, and a write runs exactly while a
\* setup or an action waits for it (base.c:376-419, persistence.c:417-491).
THEOREM StoreTypesCorrect == StoreSpec => []StoreTypeOK
<1>1. StoreInvariant => StoreTypeOK
  BY DEF StoreInvariant, StoreTypes, Stages, FileInv, FileTypes, StoreTypeOK, LearningGenerations
<1> QED
  BY InvHolds, <1>1, PTL

\* No frame, refresh or reopening makes a snapshot that saving would refuse
\* (persistence.c:739-766, classification.c:1153-1166).
THEOREM SnapshotsSaveable == StoreSpec => []Saveable
<1>1. StoreInvariant => Saveable
  BY SavedFacts, StoreAssumption DEF StoreInvariant, StoreTypes, Ages, Saveable, Young
<1> QED
  BY InvHolds, <1>1, PTL

\* Setups, actions and deaths use the file as StateFile lets any caller use it:
\* one write at a time, of whole records (base.c:376-419, persistence.c:694-795).
THEOREM StateFileUsed == StoreSpec => FileSpec
<1>1. StoreInit => FileInit
  BY DEF StoreInit
<1> QED
  BY <1>1, FileStep, InvHolds, PTL DEF StoreSpec, FileSpec

\* So what StateFile says of a reader is true of a restore (persistence.c:586-692).
THEOREM RestoreOldOrNew == StoreSpec => []OldOrNew
  BY StateFileUsed, FileOldOrNew, PTL

\* The file never loses calibration samples to a save, but after a read that
\* failed (persistence.c:586-692).
THEOREM RecordIsKept == StoreSpec => RecordKept
<1>1. StoreInvariant /\ [StoreNext]_storeVars =>
        [ /\ write.step # "renamed" /\ write'.step = "renamed"
          /\ disk.file \in Record /\ ~blind
          => disk'.file.samples >= disk.file.samples ]_storeVars
  <2> SUFFICES ASSUME StoreInvariant, StoreNext, write.step # "renamed", write'.step = "renamed",
                      disk.file \in Record, ~blind
               PROVE  disk'.file.samples >= disk.file.samples
    OBVIOUS
  <2>1. FileInv /\ FileInv' /\ [FileNext]_fileVars
    BY InvNext, FileStep DEF StoreInvariant
  <2>2. disk'.file = write'.rec
    BY <2>1 DEF FileInv, InOrder
  <2>3. CASE Writing
    BY <2>1, <2>2, <2>3, WritingFacts DEF StoreInvariant, Samples
  <2>4. CASE ~Writing
    BY <2>1, <2>4 DEF FileNext, fileVars, Begin, WriteFails, Die, PowerLoss, NoWrite
  <2> QED
    BY <2>3, <2>4
<1> QED
  BY InvHolds, <1>1, PTL DEF StoreSpec, RecordKept

\* What the classifier has learnt is lost with the process and with nothing else
\* (base.c:191-237, 354-374).
THEOREM HistoryIsKept == StoreSpec => HistorySurvives
<1>1. StoreInvariant /\ [StoreNext]_storeVars =>
        [ gen.L.classifier /\ gen'.kind # "none"
          => /\ gen'.L.classifier
             /\ gen'.L.upd >= gen.L.upd /\ gen'.L.ring >= gen.L.ring ]_storeVars
  <2> SUFFICES ASSUME StoreInvariant, StoreNext, gen.L.classifier, gen'.kind # "none"
               PROVE  Survives(gen.L, gen'.L)
    BY DEF Survives
  <2>1. gen \in LearningGenerations /\ gen.L \in Learning /\ Young(gen.L) /\ gen.kind # "none"
    BY DEF StoreInvariant, StoreTypes, Stages, Ages, LearningGenerations
  <2>2. Survives(gen.L, TransferProcessState(Unlearnt, gen.L)) /\ Survives(gen.L, gen.L)
    <3>1. gen.L.upd \in Nat /\ gen.L.ring \in Nat
      BY <2>1, PreprocessAssumption DEF Learning
    <3> QED
      BY <2>1, <3>1, UnlearntFacts, TransferFacts DEF Survives
  <2>3. CASE Acquire \/ RetainProcessState
    BY <2>1, <2>2, <2>3 DEF Acquire, RetainProcessState, EmptyGeneration
  <2>4. ASSUME NEW marked \in BOOLEAN, DeliverFrame(marked) PROVE Survives(gen.L, gen'.L)
    <3>1. gen.kind = "live"
      BY <2>4 DEF DeliverFrame
    <3>2. gen.init \/ gen.kept
      BY <3>1 DEF StoreInvariant, Stages
    <3>3. PICK rec \in LearningRecord, failed \in BOOLEAN :
            UNCHANGED gen \/ (Young(rec) /\ Restore(rec, marked, failed))
      <4>1. DefaultRecord \in LearningRecord /\ Young(DefaultRecord)
        BY UnlearntFacts, SavedFacts DEF DefaultRecord
      <4>2. disk.file \in Record => disk.file \in LearningRecord /\ Young(disk.file)
        BY StoreAssumption DEF StoreInvariant, Ages
      <4> QED
        BY <2>4, <4>1, <4>2 DEF DeliverFrame
    <3>4. CASE UNCHANGED gen
      BY <2>2, <3>4
    <3>5. CASE Young(rec) /\ Restore(rec, marked, failed)
      BY <3>2, <3>5, RestoreFacts
    <3> QED
      BY <3>3, <3>4, <3>5
  <2>5. CASE FrameInstalled
    <3>1. PICK L \in Preprocessed(gen.L) : gen' = [gen EXCEPT !.L = L]
      BY <2>5 DEF FrameInstalled
    <3>2. gen'.L = L
      BY <2>1, <3>1 DEF LearningGenerations
    <3> QED
      BY <2>1, <3>2, FrameLearns DEF Keeps
  <2>6. CASE SetupRefused \/ SetupAdmitted
    <3>1. gen'.L = gen.L
      BY <2>1, <2>6 DEF SetupRefused, SetupAdmitted, LearningGenerations
    <3> QED
      BY <2>2, <3>1
  <2>7. CASE Crash
    BY <2>7 DEF Crash, Forget, EmptyGeneration
  <2>8. CASE \/ Skip \/ SetupReady \/ SetupPublished \/ FrameDropped \/ ActionFails
             \/ ActionSaves \/ ActionSaved \/ WriteStep \/ WriteFailed
    <3>1. UNCHANGED gen
      BY <2>8 DEF Skip, SetupReady, SetupPublished, FrameDropped, ActionFails, ActionSaves,
         ActionSaved, WriteStep, engineVars, WriteFailed
    <3> QED
      BY <2>2, <3>1
  <2> QED
    BY <2>3, <2>4, <2>5, <2>6, <2>7, <2>8 DEF StoreNext
<1> QED
  BY InvHolds, <1>1, PTL DEF StoreSpec, HistorySurvives
=============================================================================
