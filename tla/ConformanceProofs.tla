------------------------- MODULE ConformanceProofs -------------------------
(***************************************************************************)
(* Proofs about the verifiers of one capture and the commands around them. *)
(* The kit, the HTTP endpoint and the self test read the same frames into  *)
(* different states; Reading says what the kit's state tells of the two    *)
(* others while a capture is being read, for captures of any length.       *)
(* Tallies is what the sums of a directory and the outcomes of commands    *)
(* keep of the verdicts they were made from.                               *)
(***************************************************************************)
EXTENDS Conformance, TLAPS

Types == FRAME_TYPES \cup {"other", "untyped", "scalar"}

\* A name for the Booleans, so that a proof may treat them as any other set.
Truths == BOOLEAN

Frames == [type : Types, id : Nat, from : Senders, ts : {NoTs, 0, 1},
           v : {"0.1", "number", "bad"}, payload : Truths, seq : 0 .. 1, branches : 0 .. 2]

KitStates == [err : BOOLEAN, warn : BOOLEAN, last : Int, seen : SUBSET (Senders \X Int),
              met : SUBSET FRAME_TYPES]
HttpStates == [err : BOOLEAN, warn : BOOLEAN, semantic : BOOLEAN, last : Int,
               seen : SUBSET (Senders \X Int)]
SelfStates == [err : BOOLEAN, hello : BOOLEAN, lastSeq : Int, requested : BOOLEAN,
               branches : 0 .. 2, seen : SUBSET Int]

Captures == [open : BOOLEAN, n : Nat, top : Nat, plain : BOOLEAN, rising : BOOLEAN]
Batches == [cases : Nat, frames : Nat, odd : Nat, unexpected : BOOLEAN, errors : BOOLEAN,
            warnings : BOOLEAN, failNamed : BOOLEAN, httpRefused : BOOLEAN]

Outcomes == [command : {"verify:dir", "verify", "selftest", "ltp:verify", "ltp:report:validate"},
             exit : {0, 1, 2, 4}, suite : {"OK", "WARN", "FAIL", Nothing},
             badge : {"red", "yellow", "brightgreen", Nothing},
             failNamed : BOOLEAN, httpRefused : BOOLEAN]

TypeOK ==
    /\ capture \in Captures
    /\ http \in HttpStates /\ kit \in KitStates /\ self \in SelfStates
    /\ batch \in Batches
    /\ outcome \subseteq Outcomes

\* Between captures the verifiers are in their initial states.
AtRest == ~capture.open => http = HttpStart /\ kit = KitStart /\ self = SelfStart

Shared(seen) == \E p, q \in seen : p[2] = q[2] /\ p # q

\* The self test has taken in every frame the kit has, and found no error.
Follows(s, k) ==
    /\ ~s.err
    /\ s.hello <=> "hello" \in k.met
    /\ s.requested <=> "route_request" \in k.met
    /\ "route_response" \in k.met => s.branches = 2
    /\ \A i \in s.seen : \E p \in k.seen : p[2] = i

Reading ==
    /\ kit.met # {} => capture.n # 0
    /\ capture.plain /\ ~kit.err => ~http.err
    /\ ~kit.err /\ ~kit.warn /\ capture.plain /\ capture.rising /\ ~Shared(kit.seen)
         => Follows(self, kit)

\* A capture the endpoint refuses counts as an error and as unexpected, and
\* every error is unexpected or announced by a name.
Tallied(b) ==
    /\ b.httpRefused => b.errors /\ b.unexpected
    /\ b.errors => b.unexpected \/ b.failNamed

Tallies == Tallied(batch) /\ \A o \in outcome : o.httpRefused => o.suite = "FAIL"

Inv == TypeOK /\ AtRest /\ Reading /\ KitImpliesHttp /\ KitImpliesCanonical /\ Tallies /\ CleanSweep

-----------------------------------------------------------------------------
(* Frames *)

LEMMA FreshTyped ==
    ASSUME NEW top \in Nat, NEW f \in FreshFrames(top)
    PROVE  f \in Frames
  <1> DEFINE Good == {TRUE}
             Shape(types, seqs, branches) ==
               [type : types, id : {top + 1}, from : {"global"}, ts : {0}, v : {"0.1"},
                payload : Good, seq : seqs, branches : branches]
  <1>1. \/ f \in Shape({"heartbeat"}, 0 .. 1, {0})
        \/ f \in Shape({"route_response"}, {0}, {2})
        \/ f \in Shape(FRAME_TYPES \ {"heartbeat", "route_response"}, {0}, {0})
    BY Zenon DEF FreshFrames
  <1>2. \A x \in Good : x \in Truths
    BY Zenon DEF Truths
  <1>3. "global" \in Senders
    BY ConformanceAssumption
  <1> HIDE DEF Good
  <1> QED
    BY <1>1, <1>2, <1>3 DEF Frames, Types, FRAME_TYPES

LEMMA WithTyped ==
    ASSUME NEW f \in Frames
    PROVE  /\ With(f, "from", Senders) \subseteq Frames
           /\ With(f, "ts", {NoTs, 1}) \subseteq Frames
           /\ With(f, "v", {"number", "bad"}) \subseteq Frames
           /\ With(f, "type", {"other", "untyped"}) \subseteq Frames
           /\ With(f, "branches", {0}) \subseteq Frames
           /\ With(f, "branches", 0 .. 1) \subseteq Frames
  <1>1. With(f, "from", Senders) \subseteq Frames
    BY DEF With, Frames
  <1>2. With(f, "ts", {NoTs, 1}) \subseteq Frames
    BY DEF With, Frames
  <1>3. With(f, "v", {"number", "bad"}) \subseteq Frames
    BY DEF With, Frames
  <1>4. With(f, "type", {"other", "untyped"}) \subseteq Frames
    BY DEF With, Frames, Types
  <1>5. With(f, "branches", {0}) \subseteq Frames
    BY DEF With, Frames
  <1>6. With(f, "branches", 0 .. 1) \subseteq Frames
    BY DEF With, Frames
  <1> QED
    BY <1>1, <1>2, <1>3, <1>4, <1>5, <1>6

LEMMA OddTyped ==
    ASSUME NEW top \in Nat, NEW g \in OddFrames(top)
    PROVE  g \in Frames
  <1> DEFINE no == FALSE
  <1>1. PICK f \in FreshFrames(top) : g \in OddVariants(f, top)
    BY Zenon DEF OddFrames
  <1>2. f \in Frames
    BY FreshTyped
  <1>3. NoId \in Nat /\ "global" \in Senders
    BY ConformanceAssumption DEF NoId
  <1>4. no \in Truths
    BY Zenon DEF Truths
  <1>5. ScalarFrame = [type |-> "scalar", id |-> NoId, from |-> "global", ts |-> NoTs, v |-> "bad",
                       payload |-> no, seq |-> 0, branches |-> 0]
    BY Zenon DEF ScalarFrame
  <1> DEFINE plain == [f EXCEPT !.payload = FALSE]
  <1>6. plain = [f EXCEPT !.payload = no]
    BY Zenon
  <1> HIDE DEF no, plain
  <1>7. ScalarFrame \in Frames
    BY <1>3, <1>4, <1>5 DEF Frames, Types
  <1>8. plain \in Frames
    BY <1>2, <1>4, <1>6 DEF Frames
  <1>9. [f EXCEPT !.id = NoId] \in Frames /\ [f EXCEPT !.id = top] \in Frames
    BY <1>2, <1>3 DEF Frames
  <1>10. OddVariants(f, top) =
              With(f, "from", Senders)
         \cup With([f EXCEPT !.id = NoId], "from", Senders)
         \cup With([f EXCEPT !.id = top], "from", Senders)
         \cup With(f, "ts", {NoTs, 1})
         \cup With(f, "v", {"number", "bad"})
         \cup With(f, "type", {"other", "untyped"})
         \cup With(plain, "branches", {0})
         \cup (IF f.type = "route_response" THEN With(f, "branches", 0 .. 1) ELSE {ScalarFrame})
    BY Zenon DEF OddVariants, plain
  <1> QED
    BY <1>1, <1>2, <1>7, <1>8, <1>9, <1>10, WithTyped

-----------------------------------------------------------------------------
(* One frame, read by the verifiers *)

\* Strings where the protocol wants strings.
Plain(f) == f.id # NoId /\ f.v # "number" /\ f.type # "untyped"

LEMMA NormalizeTyped ==
    ASSUME NEW f \in Frames, NEW i \in Nat
    PROVE  LET g == NormalizeFrame(f, i)
           IN  g.id \in Int /\ g.from \in Senders /\ g.ts \in Int /\ g.type = (IF f.type = "untyped" THEN "other" ELSE f.type)
  BY DEF NormalizeFrame, Frames, NoTs

LEMMA NormalizePlain ==
    ASSUME NEW f \in Frames, NEW i \in Nat, Plain(f)
    PROVE  NormalizeFrame(f, i) = f
  BY DEF NormalizeFrame, Frames, Plain

LEMMA HttpTyped ==
    ASSUME NEW s \in HttpStates, NEW f \in Frames, NEW i \in Nat
    PROVE  HttpFrame(s, f, i) \in HttpStates
  <1>1. HttpSeen(s, f) \in SUBSET (Senders \X Int)
    BY DEF HttpSeen, HttpStates, Frames
  <1>2. (IF f.ts = NoTs THEN s.last ELSE f.ts) \in Int
    BY DEF HttpStates, Frames, NoTs
  <1> QED
    BY <1>1, <1>2 DEF HttpFrame, HttpStates

LEMMA KitTyped ==
    ASSUME NEW s \in KitStates, NEW f \in Frames, NEW i \in Nat
    PROVE  KitFrame(s, f, i) \in KitStates
  <1>1. CASE f.type = "scalar"
    BY <1>1 DEF KitFrame, KitStates
  <1>2. CASE f.type # "scalar"
    <2> DEFINE g == NormalizeFrame(f, i)
    <2>1. g.id \in Int /\ g.from \in Senders /\ g.ts \in Int
      BY NormalizeTyped
    <2> HIDE DEF g
    <2>2. s.seen \cup {<<g.from, g.id>>} \in SUBSET (Senders \X Int)
      BY <2>1 DEF KitStates
    <2>3. (IF g.ts = NoTs THEN s.last ELSE g.ts) \in Int
      BY <2>1 DEF KitStates
    <2>4. s.met \cup ({g.type} \cap FRAME_TYPES) \in SUBSET FRAME_TYPES
      BY DEF KitStates
    <2>5. KitObject(s, g, i) \in KitStates
      BY <2>2, <2>3, <2>4 DEF KitObject, KitStates
    <2> QED
      BY <1>2, <2>5 DEF KitFrame, g
  <1> QED
    BY <1>1, <1>2

LEMMA SelfTyped ==
    ASSUME NEW s \in SelfStates, NEW f \in Frames, NEW i \in Nat
    PROVE  SelfFrame(s, f, i) \in SelfStates
  <1>1. [s EXCEPT !.err = TRUE] \in SelfStates
    BY DEF SelfStates
  <1>2. ProcessFrame(s, f, i) \in SelfStates
    <2>1. (IF f.type = "heartbeat" /\ s.hello THEN f.seq ELSE s.lastSeq) \in Int
      BY DEF SelfStates, Frames
    <2>2. (IF f.type = "route_response" THEN f.branches ELSE s.branches) \in 0 .. 2
      BY DEF SelfStates, Frames
    <2>3. s.seen \cup {f.id} \in SUBSET Int
      BY DEF SelfStates, Frames
    <2> QED
      BY <2>1, <2>2, <2>3 DEF ProcessFrame, SelfStates
  <1> QED
    BY <1>1, <1>2 DEF SelfFrame

\* What a step of the kit without an error or a warning says of the frame.
LEMMA KitClean ==
    ASSUME NEW k \in KitStates, NEW f \in Frames, NEW i \in Nat, Plain(f),
           ~KitFrame(k, f, i).err
    PROVE  /\ f.type # "scalar" /\ f.v = "0.1" /\ f.ts # NoTs /\ f.id # NoId
           /\ ~k.err /\ ~KitFrameError(k, f, i) /\ ~KitFlowError(k, f)
           /\ KitFrame(k, f, i).seen = k.seen \cup {<<f.from, f.id>>}
           /\ KitFrame(k, f, i).met = k.met \cup ({f.type} \cap FRAME_TYPES)
           /\ ~KitFrame(k, f, i).warn =>
                ~k.warn /\ f.type \in FRAME_TYPES /\ ~KitFlowWarning(k, f)
  <1>1. f.type # "scalar"
    <2>1. [k EXCEPT !.err = TRUE].err
      BY DEF KitStates
    <2> QED
      BY <2>1, Zenon DEF KitFrame
  <1>2. KitFrame(k, f, i) = KitObject(k, f, i)
    BY <1>1, NormalizePlain DEF KitFrame
  <1>3. ~k.err /\ ~KitFrameError(k, f, i) /\ ~KitFlowError(k, f)
    <2>1. KitObject(k, f, i).err = (k.err \/ KitFrameError(k, f, i) \/ KitFlowError(k, f))
      BY DEF KitObject
    <2>2. ~KitObject(k, f, i).err
      BY <1>2
    <2> QED
      BY <2>1, <2>2, Zenon
  <1>4. f.v = "0.1" /\ f.ts # NoTs
    BY <1>3 DEF KitFrameError
  <1>5. f.id # NoId
    BY DEF Plain
  <1>6. ASSUME ~KitFrame(k, f, i).warn
        PROVE  ~k.warn /\ f.type \in FRAME_TYPES /\ ~KitFlowWarning(k, f)
    BY <1>2, <1>6 DEF KitObject
  <1>7. /\ KitFrame(k, f, i).seen = k.seen \cup {<<f.from, f.id>>}
        /\ KitFrame(k, f, i).met = k.met \cup ({f.type} \cap FRAME_TYPES)
    BY <1>2 DEF KitObject
  <1> QED
    BY <1>1, <1>3, <1>4, <1>5, <1>6, <1>7

\* The endpoint finds no error in a frame in which the kit finds none.
LEMMA HttpFollowsKit ==
    ASSUME NEW s \in HttpStates, NEW k \in KitStates, NEW f \in Frames, NEW i \in Nat,
           Plain(f), ~KitFrame(k, f, i).err, ~s.err
    PROVE  ~HttpFrame(s, f, i).err
  <1>1. /\ f.type # "scalar" /\ f.v = "0.1" /\ f.ts # NoTs /\ f.id # NoId
        /\ ~KitFrameError(k, f, i)
    BY KitClean
  <1>2. f.type # "untyped"
    BY DEF Plain
  <1>3. ~(i = 0 /\ f.type # "hello") /\ ~(f.type \in FRAME_TYPES /\ ~IsLTPFrame(f))
    BY <1>1 DEF KitFrameError
  <1> QED
    BY <1>1, <1>2, <1>3 DEF HttpFrame

\* Nor does the self test, where the kit has no warning either, heartbeats count
\* upwards and identifiers are not shared; it skips none of these frames.
LEMMA SelfFollowsKit ==
    ASSUME NEW s \in SelfStates, NEW k \in KitStates, NEW f \in Frames, NEW i \in Nat,
           Plain(f), f.type = "heartbeat" => f.seq > s.lastSeq,
           ~KitFrame(k, f, i).err, ~KitFrame(k, f, i).warn, ~Shared(KitFrame(k, f, i).seen),
           Follows(s, k)
    PROVE  Follows(SelfFrame(s, f, i), KitFrame(k, f, i))
  <1> DEFINE l == KitFrame(k, f, i)
  <1>1. /\ f.v = "0.1" /\ f.id # NoId /\ f.type \in FRAME_TYPES
        /\ ~KitFrameError(k, f, i) /\ ~KitFlowError(k, f) /\ ~KitFlowWarning(k, f)
        /\ l.seen = k.seen \cup {<<f.from, f.id>>}
        /\ l.met = k.met \cup {f.type}
    BY KitClean
  <1>2. IsLTPFrame(f) /\ <<f.from, f.id>> \notin k.seen
    BY <1>1 DEF KitFrameError
  <1> HIDE DEF l
  <1>3. f.id \notin s.seen
    <2> SUFFICES ASSUME f.id \in s.seen PROVE Shared(l.seen)
      BY DEF l
    <2>1. PICK p \in k.seen : p[2] = f.id
      BY DEF Follows
    <2>2. <<f.from, f.id>>[2] = p[2] /\ <<f.from, f.id>> # p
      BY <1>2, <2>1
    <2> QED
      BY <1>1, <2>2 DEF Shared
  <1>4. SelfFrame(s, f, i) = ProcessFrame(s, f, i)
    BY <1>1, <1>2, <1>3 DEF SelfFrame
  <1>5. ~HelloGate(s, f, i)
    BY <1>1 DEF HelloGate, KitFrameError, Follows
  <1>6. ~(f.type = "heartbeat" /\ f.seq <= s.lastSeq)
    BY DEF SelfStates, Frames
  <1>7. f.type = "route_response" => s.requested /\ f.branches = 2
    <2> SUFFICES ASSUME f.type = "route_response" PROVE s.requested /\ f.branches = 2
      OBVIOUS
    <2>1. "route_request" \in k.met /\ f.branches # 0 /\ f.branches # 1
      BY <1>1 DEF KitFlowError, KitFlowWarning
    <2>2. f.branches \in 0 .. 2
      BY DEF Frames
    <2> QED
      BY <2>1, <2>2 DEF Follows
  <1> DEFINE t == ProcessFrame(s, f, i)
  <1>8. ~t.err
    BY <1>5, <1>6, <1>7 DEF ProcessFrame, Follows
  <1>9. /\ t.hello <=> s.hello \/ f.type = "hello"
        /\ t.requested <=> s.requested \/ f.type = "route_request"
        /\ t.branches = IF f.type = "route_response" THEN f.branches ELSE s.branches
        /\ t.seen = s.seen \cup {f.id}
    BY DEF ProcessFrame
  <1> HIDE DEF t
  <1>10. t.hello <=> "hello" \in l.met
    BY <1>1, <1>9 DEF Follows
  <1>11. t.requested <=> "route_request" \in l.met
    BY <1>1, <1>9 DEF Follows
  <1>12. "route_response" \in l.met => t.branches = 2
    BY <1>1, <1>7, <1>9 DEF Follows
  <1>13. ASSUME NEW j \in t.seen PROVE \E p \in l.seen : p[2] = j
    <2>1. CASE j = f.id
      <3>1. <<f.from, f.id>> \in l.seen /\ <<f.from, f.id>>[2] = j
        BY <1>1, <2>1
      <3> QED
        BY <3>1, Zenon
    <2>2. CASE j \in s.seen
      BY <1>1, <2>2 DEF Follows
    <2> QED
      BY <1>9, <2>1, <2>2
  <1>14. Follows(t, l)
    BY <1>8, <1>10, <1>11, <1>12, <1>13 DEF Follows
  <1> QED
    BY <1>4, <1>14 DEF t, l

-----------------------------------------------------------------------------
(* Reading a capture *)

LEMMA FrameRead ==
    ASSUME TypeOK, AtRest, Reading, NEW f \in Frames, NEW odd \in Nat, ReadFrame(f, odd)
    PROVE  TypeOK' /\ AtRest' /\ Reading'
  <1>1. /\ capture.open
        /\ http' = HttpFrame(http, f, capture.n)
        /\ kit' = KitFrame(kit, f, capture.n)
        /\ self' = SelfFrame(self, f, capture.n)
        /\ outcome' = outcome
    BY DEF ReadFrame
  <1>2. /\ capture.n \in Nat /\ capture.top \in Nat
        /\ kit \in KitStates /\ http \in HttpStates /\ self \in SelfStates
    BY DEF TypeOK, Captures
  <1>3. kit' \in KitStates /\ http' \in HttpStates /\ self' \in SelfStates
    BY <1>1, <1>2, HttpTyped, KitTyped, SelfTyped
  <1>4. /\ capture' \in Captures
        /\ capture'.open = capture.open
        /\ capture'.n = capture.n + 1
        /\ capture'.plain => capture.plain /\ Plain(f)
        /\ capture'.rising => capture.rising /\ (f.type = "heartbeat" => f.seq > self.lastSeq)
    <2> DEFINE top == IF f.id > capture.top THEN f.id ELSE capture.top
               plain == capture.plain /\ f.id # NoId /\ f.v # "number" /\ f.type # "untyped"
               rising == capture.rising /\ (f.type = "heartbeat" => f.seq > self.lastSeq)
    <2>1. capture' = [capture EXCEPT !.n = capture.n + 1, !.top = top, !.plain = plain,
                                     !.rising = rising]
      BY DEF ReadFrame
    <2>2. capture \in Captures
      BY DEF TypeOK
    <2>3. top \in Nat
      BY <1>2 DEF Frames
    <2>4. plain \in BOOLEAN /\ rising \in BOOLEAN
      OBVIOUS
    <2>5. plain => capture.plain /\ Plain(f)
      BY DEF Plain
    <2>6. rising => capture.rising /\ (f.type = "heartbeat" => f.seq > self.lastSeq)
      OBVIOUS
    <2> HIDE DEF top, plain, rising
    <2>7. capture' = [open |-> capture.open, n |-> capture.n + 1, top |-> top,
                      plain |-> plain, rising |-> rising]
      BY <2>1, <2>2 DEF Captures
    <2>8. capture' \in Captures
      BY <2>2, <2>3, <2>4, <2>7 DEF Captures
    <2>9. /\ capture'.open = capture.open /\ capture'.n = capture.n + 1
          /\ capture'.plain = plain /\ capture'.rising = rising
      BY <2>7
    <2> QED
      BY <2>5, <2>6, <2>8, <2>9
  <1>5. batch' \in Batches
    <2>1. batch' = [batch EXCEPT !.frames = batch.frames + 1, !.odd = batch.odd + odd]
      BY DEF ReadFrame
    <2>2. batch \in Batches
      BY DEF TypeOK
    <2>3. batch.frames + 1 \in Nat /\ batch.odd + odd \in Nat
      BY <2>2 DEF Batches
    <2> QED
      BY <2>1, <2>2, <2>3 DEF Batches
  <1>6. TypeOK'
    BY <1>1, <1>3, <1>4, <1>5 DEF TypeOK
  <1>7. AtRest'
    BY <1>1, <1>4 DEF AtRest
  <1>8. capture'.n # 0
    BY <1>2, <1>4
  <1>9. ASSUME capture'.plain, ~kit'.err PROVE ~http'.err
    <2>1. Plain(f) /\ capture.plain
      BY <1>4, <1>9
    <2>2. ~kit.err
      BY <1>1, <1>2, <1>9, <2>1, KitClean
    <2>3. ~http.err
      BY <2>1, <2>2 DEF Reading
    <2> QED
      BY <1>1, <1>2, <1>9, <2>1, <2>3, HttpFollowsKit
  <1>10. ASSUME ~kit'.err, ~kit'.warn, capture'.plain, capture'.rising, ~Shared(kit'.seen)
         PROVE  Follows(self', kit')
    <2>1. /\ Plain(f) /\ capture.plain /\ capture.rising
          /\ f.type = "heartbeat" => f.seq > self.lastSeq
      BY <1>4, <1>10
    <2>2. ~kit.err /\ ~kit.warn /\ kit.seen \subseteq kit'.seen
      BY <1>1, <1>2, <1>10, <2>1, KitClean
    <2>3. ~Shared(kit.seen)
      BY <1>10, <2>2 DEF Shared
    <2>4. Follows(self, kit)
      BY <2>1, <2>2, <2>3 DEF Reading
    <2> QED
      BY <1>1, <1>2, <1>10, <2>1, <2>4, SelfFollowsKit
  <1> QED
    BY <1>6, <1>7, <1>8, <1>9, <1>10 DEF Reading

\* The verdicts on a capture: the kit's is the strictest.
LEMMA VerdictOK ==
    ASSUME TypeOK, Reading
    PROVE  /\ KitStatus(kit) # "FAIL" /\ capture.plain /\ capture.n <= MAX_FRAMES
                => HttpStatus(http, capture.n) = 200
           /\ KitStatus(kit) = "OK" /\ capture.plain /\ capture.rising /\ ~Shared(kit.seen)
                => SelfLevel(self) = "LTP-Canonical"
  <1>1. capture.n \in Nat /\ MAX_FRAMES \in Nat
    BY ConformanceAssumption DEF TypeOK, Captures
  <1>2. ASSUME KitStatus(kit) # "FAIL"
        PROVE  /\ ~kit.err /\ capture.n # 0
               /\ {"hello", "route_request", "route_response"} \subseteq kit.met
    <2>1. ~kit.err /\ FRAME_TYPES \ {"focus_snapshot"} \subseteq kit.met
      BY <1>2 DEF KitStatus
    <2>2. {"hello", "route_request", "route_response"} \subseteq FRAME_TYPES \ {"focus_snapshot"}
      BY DEF FRAME_TYPES
    <2> QED
      BY <2>1, <2>2 DEF Reading
  <1>3. ASSUME KitStatus(kit) # "FAIL", capture.plain, capture.n <= MAX_FRAMES
        PROVE  HttpStatus(http, capture.n) = 200
    <2>1. ~http.err
      BY <1>2, <1>3 DEF Reading
    <2> QED
      BY <1>1, <1>2, <1>3, <2>1 DEF HttpStatus
  <1>4. ASSUME KitStatus(kit) = "OK", capture.plain, capture.rising, ~Shared(kit.seen)
        PROVE  SelfLevel(self) = "LTP-Canonical"
    <2>1. ~kit.warn
      BY <1>4 DEF KitStatus
    <2>2. ~kit.err /\ {"hello", "route_request", "route_response"} \subseteq kit.met
      BY <1>2, <1>4
    <2>3. Follows(self, kit)
      BY <1>4, <2>1, <2>2 DEF Reading
    <2>4. ~self.err /\ self.hello /\ self.branches = 2
      BY <2>2, <2>3 DEF Follows
    <2> QED
      BY <2>4 DEF SelfLevel, SelfOk
  <1> QED
    BY <1>3, <1>4

-----------------------------------------------------------------------------
(* Directories and commands *)

LEMMA StatusTyped ==
    KitStatus(kit) \in {"OK", "WARN", "FAIL"}
  BY DEF KitStatus

LEMMA AddCaseTallied ==
    ASSUME NEW b \in Batches, Tallied(b), NEW e \in ExpectedOutcome,
           NEW status \in {"OK", "WARN", "FAIL"}, NEW refused \in BOOLEAN,
           refused => status = "FAIL"
    PROVE  /\ AddCase(b, e, status, refused) \in Batches
           /\ Tallied(AddCase(b, e, status, refused))
  <1> DEFINE c == AddCase(b, e, status, refused)
  <1>1. /\ c.unexpected = (b.unexpected \/ ~Matches(e, status))
        /\ c.errors = (b.errors \/ status = "FAIL")
        /\ c.failNamed = (b.failNamed \/ e = "FAIL")
        /\ c.httpRefused = (b.httpRefused \/ (e # "FAIL" /\ refused))
    BY DEF AddCase
  <1>2. e # "FAIL" /\ status = "FAIL" => ~Matches(e, status)
    BY DEF Matches
  <1>3. c \in Batches
    <2>1. b.cases + 1 \in Nat /\ b.frames \in Nat /\ b.odd \in Nat
      BY DEF Batches
    <2> QED
      BY <2>1 DEF AddCase, Batches
  <1> HIDE DEF c
  <1>4. Tallied(c)
    BY <1>1, <1>2, Zenon DEF Tallied
  <1> QED
    BY <1>3, <1>4 DEF c

LEMMA NoBatchTallied == NoBatch \in Batches /\ Tallied(NoBatch)
  BY DEF NoBatch, Batches, Tallied

LEMMA ExitsOK ==
    ASSUME NEW command \in {"verify:dir", "verify", "selftest"}, NEW exit \in {0, 1, 2, 4},
           NEW b \in Batches, KitExits(command, exit, b), b.httpRefused => b.errors,
           exit = 0 => ~b.httpRefused /\ (b.errors => b.failNamed)
    PROVE  /\ outcome' \subseteq Outcomes /\ CleanSweep' /\ batch' = NoBatch /\ verdict' = {}
           /\ \A o \in outcome' : o.httpRefused => o.suite = "FAIL"
  <1> DEFINE suite == Worst(b.errors, b.warnings)
             badge == WriteBadge(b.errors, b.warnings)
  <1>1. suite \in {"OK", "WARN", "FAIL"} /\ badge \in {"red", "yellow", "brightgreen"}
    BY DEF Worst, WriteBadge
  <1>2. (suite = "FAIL" <=> b.errors) /\ (badge = "red" <=> b.errors)
    BY DEF Worst, WriteBadge
  <1>3. PICK o : /\ o = [command |-> command, exit |-> exit, suite |-> suite, badge |-> badge,
                         failNamed |-> b.failNamed, httpRefused |-> b.httpRefused]
                 /\ outcome' = {o} /\ batch' = NoBatch /\ verdict' = {}
    BY DEF KitExits
  <1>4. b.failNamed \in BOOLEAN /\ b.httpRefused \in BOOLEAN
    BY DEF Batches
  <1> HIDE DEF suite, badge
  <1>5. o \in Outcomes
    BY <1>1, <1>3, <1>4 DEF Outcomes
  <1>6. /\ o.exit = exit /\ o.suite = suite /\ o.badge = badge
        /\ o.failNamed = b.failNamed /\ o.httpRefused = b.httpRefused
    BY <1>3
  <1> QED
    BY <1>2, <1>3, <1>5, <1>6 DEF CleanSweep

LEMMA Forgotten ==
    ASSUME ForgetCapture
    PROVE  /\ capture' \in Captures /\ http' \in HttpStates /\ kit' \in KitStates
           /\ self' \in SelfStates /\ AtRest' /\ Reading'
  <1>1. capture' = Closed /\ http' = HttpStart /\ kit' = KitStart /\ self' = SelfStart
    BY DEF ForgetCapture
  <1>2. Closed \in Captures /\ Closed.n = 0
    BY DEF Closed, Captures
  <1>3. HttpStart \in HttpStates /\ ~HttpStart.err
    BY DEF HttpStart, HttpStates, NoTs
  <1>4. KitStart \in KitStates /\ KitStart.met = {}
    BY DEF KitStart, KitStates, NoTs
  <1>5. SelfStart \in SelfStates
    BY DEF SelfStart, SelfStates
  <1>6. Follows(SelfStart, KitStart)
    BY DEF Follows, SelfStart, KitStart
  <1> QED
    BY <1>1, <1>2, <1>3, <1>4, <1>5, <1>6 DEF AtRest, Reading

-----------------------------------------------------------------------------
(* The invariant *)

LEMMA InvInit == ConformanceInit => Inv
  <1> SUFFICES ASSUME ConformanceInit PROVE Inv
    OBVIOUS
  <1>1. Closed \in Captures /\ Closed.n = 0 /\ HttpStart \in HttpStates /\ ~HttpStart.err
    BY DEF Closed, Captures, HttpStart, HttpStates, NoTs
  <1>2. KitStart \in KitStates /\ KitStart.met = {} /\ SelfStart \in SelfStates
    BY DEF KitStart, KitStates, SelfStart, SelfStates, NoTs
  <1>3. Follows(SelfStart, KitStart)
    BY DEF Follows, SelfStart, KitStart
  <1>4. TypeOK
    BY <1>1, <1>2, NoBatchTallied DEF ConformanceInit, TypeOK
  <1>5. AtRest /\ Reading
    BY <1>1, <1>2, <1>3 DEF ConformanceInit, AtRest, Reading
  <1>6. KitImpliesHttp /\ KitImpliesCanonical /\ Tallies /\ CleanSweep
    BY NoBatchTallied DEF ConformanceInit, KitImpliesHttp, KitImpliesCanonical, Tallies, CleanSweep
  <1> QED
    BY <1>4, <1>5, <1>6 DEF Inv

\* An action that leaves the capture, the batch, the verdicts and the verifiers
\* alone only has its outcome to answer for.
LEMMA OutcomeOnly ==
    ASSUME Inv, UNCHANGED <<capture, http, kit, self, verdict, batch>>,
           outcome' \subseteq Outcomes,
           \A o \in outcome' : o.httpRefused => o.suite = "FAIL",
           CleanSweep'
    PROVE  Inv'
  BY DEF Inv, TypeOK, AtRest, Reading, KitImpliesHttp, KitImpliesCanonical, Tallies, Tallied

LEMMA OpenInv == ASSUME Inv, OpenCapture PROVE Inv'
  <1>1. /\ ~capture.open /\ capture' = [Closed EXCEPT !.open = TRUE]
        /\ verdict' = {} /\ outcome' = {}
        /\ UNCHANGED <<http, kit, self, batch>>
    BY DEF OpenCapture
  <1>2. kit = KitStart /\ http = HttpStart /\ self = SelfStart
    BY <1>1 DEF Inv, AtRest
  <1>3. capture' \in Captures /\ capture'.open
    BY <1>1 DEF Closed, Captures
  <1>4. KitStart.met = {} /\ ~HttpStart.err /\ Follows(SelfStart, KitStart)
    BY DEF KitStart, HttpStart, Follows, SelfStart
  <1>5. TypeOK'
    BY <1>1, <1>3 DEF Inv, TypeOK
  <1>6. Reading' /\ AtRest'
    BY <1>1, <1>2, <1>3, <1>4 DEF Reading, AtRest
  <1>7. KitImpliesHttp' /\ KitImpliesCanonical' /\ Tallies' /\ CleanSweep'
    BY <1>1 DEF Inv, KitImpliesHttp, KitImpliesCanonical, Tallies, Tallied, CleanSweep
  <1> QED
    BY <1>5, <1>6, <1>7 DEF Inv

LEMMA ReadInv ==
    ASSUME Inv, NEW f \in Frames, NEW odd \in Nat, ReadFrame(f, odd)
    PROVE  Inv'
  <1>1. TypeOK' /\ AtRest' /\ Reading'
    BY FrameRead DEF Inv
  <1>2. /\ batch' = [batch EXCEPT !.frames = batch.frames + 1, !.odd = batch.odd + odd]
        /\ UNCHANGED <<verdict, outcome>>
    BY DEF ReadFrame
  <1>3. batch \in Batches
    BY DEF Inv, TypeOK
  <1>4. /\ batch'.errors = batch.errors /\ batch'.unexpected = batch.unexpected
        /\ batch'.failNamed = batch.failNamed /\ batch'.httpRefused = batch.httpRefused
    BY <1>2, <1>3 DEF Batches
  <1>5. Tallies'
    BY <1>2, <1>4 DEF Inv, Tallies, Tallied
  <1>6. KitImpliesHttp' /\ KitImpliesCanonical' /\ CleanSweep'
    BY <1>2 DEF Inv, KitImpliesHttp, KitImpliesCanonical, CleanSweep
  <1> QED
    BY <1>1, <1>5, <1>6 DEF Inv

LEMMA CloseInv ==
    ASSUME Inv, NEW e \in ExpectedOutcome, NEW body \in Bodies, CloseCapture(e, body)
    PROVE  Inv'
  <1> DEFINE status  == KitStatus(kit)
             code    == HttpStatus(http, capture.n)
             small   == capture.n <= MAX_FRAMES
             refused == capture.plain /\ small /\ code # 200
             shared  == \E p, q \in kit.seen : p[2] = q[2] /\ p # q
             whole   == body = "whole"
  <1>1. /\ verdict' = {[http |-> PostVerify(body, code), whole |-> whole, kit |-> status,
                        level |-> SelfLevel(self), plain |-> capture.plain, small |-> small,
                        rising |-> capture.rising, shared |-> shared]}
        /\ batch' = AddCase(batch, e, status, refused)
        /\ ForgetCapture
        /\ UNCHANGED outcome
    BY DEF CloseCapture
  <1>2. /\ status # "FAIL" /\ capture.plain /\ small => code = 200
        /\ status = "OK" /\ capture.plain /\ capture.rising /\ ~shared
             => SelfLevel(self) = "LTP-Canonical"
    BY VerdictOK DEF Inv, Shared
  <1>3. whole => PostVerify(body, code) = code
    BY DEF PostVerify
  <1>4. refused \in BOOLEAN /\ (refused => status = "FAIL")
    BY <1>2
  <1>5. status \in {"OK", "WARN", "FAIL"}
    BY StatusTyped
  <1>6. batch \in Batches /\ Tallied(batch)
    BY DEF Inv, TypeOK, Tallies
  <1> HIDE DEF status, code, small, refused, shared, whole
  <1>7. batch' \in Batches /\ Tallied(batch)'
    <2>1. AddCase(batch, e, status, refused) \in Batches
      BY <1>4, <1>5, <1>6, AddCaseTallied
    <2>2. Tallied(AddCase(batch, e, status, refused))
      BY <1>4, <1>5, <1>6, AddCaseTallied
    <2> QED
      BY <1>1, <2>1, <2>2
  <1>8. PICK r : /\ r = [http |-> PostVerify(body, code), whole |-> whole, kit |-> status,
                         level |-> SelfLevel(self), plain |-> capture.plain, small |-> small,
                         rising |-> capture.rising, shared |-> shared]
                 /\ verdict' = {r}
    BY <1>1
  <1>12. /\ r.http = PostVerify(body, code) /\ r.whole = whole /\ r.kit = status
         /\ r.level = SelfLevel(self) /\ r.plain = capture.plain /\ r.small = small
         /\ r.rising = capture.rising /\ r.shared = shared
    BY <1>8
  <1>9. KitImpliesHttp' /\ KitImpliesCanonical'
    BY <1>2, <1>3, <1>8, <1>12 DEF KitImpliesHttp, KitImpliesCanonical
  <1>10. TypeOK' /\ AtRest' /\ Reading'
    BY <1>1, <1>7, Forgotten DEF Inv, TypeOK
  <1>11. Tallies' /\ CleanSweep'
    BY <1>1, <1>7 DEF Inv, Tallies, CleanSweep
  <1> QED
    BY <1>9, <1>10, <1>11 DEF Inv

LEMMA CloseInvalidInv ==
    ASSUME Inv, NEW e \in ExpectedOutcome, CloseInvalid(e)
    PROVE  Inv'
  <1>1. /\ batch' = AddCase(batch, e, "FAIL", FALSE) /\ ForgetCapture
        /\ UNCHANGED <<verdict, outcome>>
    BY DEF CloseInvalid
  <1>2. batch \in Batches /\ Tallied(batch)
    BY DEF Inv, TypeOK, Tallies
  <1>3. batch' \in Batches /\ Tallied(batch)'
    BY <1>1, <1>2, AddCaseTallied
  <1>4. TypeOK' /\ AtRest' /\ Reading'
    BY <1>1, <1>3, Forgotten DEF Inv, TypeOK
  <1>5. KitImpliesHttp' /\ KitImpliesCanonical' /\ Tallies' /\ CleanSweep'
    BY <1>1, <1>3 DEF Inv, KitImpliesHttp, KitImpliesCanonical, Tallies, CleanSweep
  <1> QED
    BY <1>4, <1>5 DEF Inv

\* What a command that ends leaves behind, with the verifiers at rest.
LEMMA ExitInv ==
    ASSUME Inv, NEW command \in {"verify:dir", "verify", "selftest"}, NEW exit \in {0, 1, 2, 4},
           NEW b \in Batches, KitExits(command, exit, b), b.httpRefused => b.errors,
           exit = 0 => ~b.httpRefused /\ (b.errors => b.failNamed),
           ForgetCapture \/ UNCHANGED <<capture, http, kit, self>>
    PROVE  Inv'
  <1>1. /\ outcome' \subseteq Outcomes /\ CleanSweep' /\ batch' = NoBatch /\ verdict' = {}
        /\ \A o \in outcome' : o.httpRefused => o.suite = "FAIL"
    BY ExitsOK
  <1>2. /\ capture' \in Captures /\ http' \in HttpStates /\ kit' \in KitStates
        /\ self' \in SelfStates /\ AtRest' /\ Reading'
    BY Forgotten DEF Inv, TypeOK, AtRest, Reading
  <1>3. TypeOK' /\ Tallies'
    BY <1>1, <1>2, NoBatchTallied DEF TypeOK, Tallies
  <1>4. KitImpliesHttp' /\ KitImpliesCanonical'
    BY <1>1 DEF KitImpliesHttp, KitImpliesCanonical
  <1> QED
    BY <1>1, <1>2, <1>3, <1>4 DEF Inv

LEMMA EndDirectoryInv == ASSUME Inv, EndDirectory PROVE Inv'
  <1>1. batch \in Batches /\ Tallied(batch)
    BY DEF Inv, TypeOK, Tallies
  <1>2. PICK exit \in {0, 1, 2, 4} :
          /\ KitExits("verify:dir", exit, batch) /\ exit = (IF batch.unexpected THEN 2 ELSE 0)
          /\ UNCHANGED <<capture, http, kit, self>>
    BY DEF EndDirectory
  <1>3. /\ batch.httpRefused => batch.errors
        /\ exit = 0 => ~batch.httpRefused /\ (batch.errors => batch.failNamed)
    BY <1>1, <1>2 DEF Tallied
  <1> QED
    BY <1>1, <1>2, <1>3, ExitInv

LEMMA VerifyFileInv == ASSUME Inv, NEW strict \in BOOLEAN, VerifyFile(strict) PROVE Inv'
  <1> DEFINE status  == KitStatus(kit)
             refused == capture.plain /\ capture.n <= MAX_FRAMES /\ HttpStatus(http, capture.n) # 200
             b == AddCase(NoBatch, "OK", status, refused)
  <1>1. KitExits("verify", DeriveExitCode(status, strict), b) /\ ForgetCapture
    BY DEF VerifyFile
  <1>2. status \in {"OK", "WARN", "FAIL"} /\ refused \in BOOLEAN
    BY StatusTyped
  <1>3. refused => status = "FAIL"
    BY VerdictOK DEF Inv
  <1>4. DeriveExitCode(status, strict) \in {0, 1, 2, 4}
    BY <1>2 DEF DeriveExitCode
  <1>5. DeriveExitCode(status, strict) = 0 => status = "OK"
    BY <1>2 DEF DeriveExitCode
  <1> HIDE DEF status, refused
  <1>6. b \in Batches /\ Tallied(b)
    BY <1>2, <1>3, NoBatchTallied, AddCaseTallied DEF ExpectedOutcome
  <1>7. status = "OK" => ~b.unexpected
    BY DEF AddCase, Matches, NoBatch
  <1> HIDE DEF b
  <1>8. /\ b.httpRefused => b.errors
        /\ DeriveExitCode(status, strict) = 0 => ~b.httpRefused /\ (b.errors => b.failNamed)
    BY <1>5, <1>6, <1>7 DEF Tallied
  <1> QED
    BY <1>1, <1>4, <1>6, <1>8, ExitInv

LEMMA SelfTestInv ==
    ASSUME Inv, NEW mode \in SelfTestModes, NEW strict \in BOOLEAN, RunSelfTestCommand(mode, strict)
    PROVE  Inv'
  <1> DEFINE ok == SelfOk(RunSelfTest(SelfTestFrames(mode)))
             b == [NoBatch EXCEPT !.errors = ~ok]
             exit == IF ok THEN 0 ELSE IF strict THEN 1 ELSE 2
  <1>1. KitExits("selftest", exit, b) /\ UNCHANGED <<capture, http, kit, self>>
    BY DEF RunSelfTestCommand
  <1>2. ok \in BOOLEAN
    BY DEF SelfOk
  <1> HIDE DEF ok
  <1>3. b \in Batches /\ ~b.httpRefused /\ b.errors = ~ok
    BY <1>2 DEF NoBatch, Batches
  <1>4. exit \in {0, 1, 2, 4} /\ (exit = 0 => ok)
    OBVIOUS
  <1> HIDE DEF b, exit
  <1>5. exit = 0 => ~b.errors
    BY <1>3, <1>4
  <1> QED
    BY <1>1, <1>3, <1>4, <1>5, ExitInv

LEMMA UnreadableInv == ASSUME Inv, UnreadableFile PROVE Inv'
  <1>1. PICK o : /\ o = [command |-> "verify:dir", exit |-> 4, suite |-> "FAIL", badge |-> Nothing,
                         failNamed |-> batch.failNamed, httpRefused |-> batch.httpRefused]
                 /\ outcome' = {o} /\ batch' = NoBatch /\ verdict' = {} /\ ForgetCapture
    BY DEF UnreadableFile
  <1>2. batch.failNamed \in BOOLEAN /\ batch.httpRefused \in BOOLEAN
    BY DEF Inv, TypeOK, Batches
  <1>3. o \in Outcomes /\ o.suite = "FAIL" /\ o.exit = 4
    BY <1>1, <1>2 DEF Outcomes
  <1>4. TypeOK' /\ AtRest' /\ Reading' /\ Tallies'
    BY <1>1, <1>3, Forgotten, NoBatchTallied DEF TypeOK, Tallies
  <1>5. KitImpliesHttp' /\ KitImpliesCanonical' /\ CleanSweep'
    BY <1>1, <1>3 DEF KitImpliesHttp, KitImpliesCanonical, CleanSweep
  <1> QED
    BY <1>4, <1>5 DEF Inv

LEMMA LtpVerifyInv ==
    ASSUME Inv, NEW o \in outcome, NEW others \in BOOLEAN, LtpVerify(o, others)
    PROVE  Inv'
  <1> DEFINE overall == Worst(~others \/ o.suite = "FAIL", o.suite = "WARN")
  <1>1. PICK p : /\ p = [o EXCEPT !.command = "ltp:verify", !.badge = Nothing,
                                  !.exit = VerifyExitCode(overall)]
                 /\ outcome' = {p}
                 /\ UNCHANGED <<capture, http, kit, self, verdict, batch>>
    BY DEF LtpVerify
  <1>2. VerifyExitCode(overall) \in {0, 2} /\ (VerifyExitCode(overall) = 0 => o.suite # "FAIL")
    BY DEF VerifyExitCode, Worst
  <1>3. o \in Outcomes /\ (o.httpRefused => o.suite = "FAIL")
    BY DEF Inv, TypeOK, Tallies
  <1> DEFINE code == VerifyExitCode(overall)
  <1> HIDE DEF code
  <1>4. p = [command |-> "ltp:verify", exit |-> code, suite |-> o.suite, badge |-> Nothing,
             failNamed |-> o.failNamed, httpRefused |-> o.httpRefused]
    BY <1>1, <1>3 DEF Outcomes, code
  <1>5. p \in Outcomes
    BY <1>2, <1>3, <1>4 DEF Outcomes, code
  <1>6. /\ p.exit = 0 => o.suite # "FAIL"
        /\ p.suite = o.suite /\ p.httpRefused = o.httpRefused /\ p.badge # "red"
    BY <1>2, <1>4 DEF code, Nothing
  <1>7. CleanSweep' /\ \A q \in outcome' : q.httpRefused => q.suite = "FAIL"
    BY <1>1, <1>3, <1>6 DEF CleanSweep
  <1> QED
    BY <1>1, <1>5, <1>7, OutcomeOnly

LEMMA ValidateInv == ASSUME Inv, ValidateReport PROVE Inv'
  <1> DEFINE exit == IF artifact = {} THEN 1
                     ELSE IF \E a \in artifact : a.schema = "v0.1" THEN 0 ELSE 2
             no == FALSE
  <1>1. PICK o : /\ o = [command |-> "ltp:report:validate", exit |-> exit, suite |-> Nothing,
                         badge |-> Nothing, failNamed |-> no, httpRefused |-> no]
                 /\ outcome' = {o}
                 /\ UNCHANGED <<capture, http, kit, self, verdict, batch>>
    BY DEF ValidateReport
  <1>2. exit \in {0, 1, 2} /\ no \in BOOLEAN /\ ~no
    OBVIOUS
  <1> HIDE DEF exit, no
  <1>3. o \in Outcomes
    BY <1>1, <1>2 DEF Outcomes
  <1>4. ~o.httpRefused /\ o.suite # "FAIL" /\ o.badge # "red"
    BY <1>1, <1>2 DEF Nothing
  <1>5. CleanSweep' /\ \A q \in outcome' : q.httpRefused => q.suite = "FAIL"
    BY <1>1, <1>4 DEF CleanSweep
  <1> QED
    BY <1>1, <1>3, <1>5, OutcomeOnly

LEMMA InvNext == Inv /\ [ConformanceNext]_conformanceVars => Inv'
  <1> SUFFICES ASSUME Inv, [ConformanceNext]_conformanceVars PROVE Inv'
    OBVIOUS
  <1>1. capture.top \in Nat
    BY DEF Inv, TypeOK, Captures
  <1>2. ASSUME NEW f \in FreshFrames(capture.top), ReadFrame(f, 0) PROVE Inv'
    BY <1>1, <1>2, FreshTyped, ReadInv
  <1>3. ASSUME NEW f \in OddFrames(capture.top), ReadFrame(f, 1) PROVE Inv'
    BY <1>1, <1>3, OddTyped, ReadInv
  <1>4. CASE UNCHANGED <<capture, http, kit, self, verdict, batch, outcome>>
    BY <1>4 DEF Inv, TypeOK, AtRest, Reading, KitImpliesHttp, KitImpliesCanonical, Tallies,
                Tallied, CleanSweep
  <1>5. ASSUME NEW mode \in SelfTestModes, ConformanceReport(mode) PROVE Inv'
    BY <1>4, <1>5 DEF ConformanceReport
  <1>6. ASSUME NEW a \in artifact, LtpBadge(a) PROVE Inv'
    BY <1>4, <1>6 DEF LtpBadge
  <1>7. CASE UNCHANGED conformanceVars
    BY <1>4, <1>7 DEF conformanceVars
  <1>8. CASE ConformanceNext
    BY <1>2, <1>3, <1>5, <1>6, <1>8, OpenInv, CloseInv, CloseInvalidInv, EndDirectoryInv,
       VerifyFileInv, SelfTestInv, UnreadableInv, LtpVerifyInv, ValidateInv DEF ConformanceNext
  <1> QED
    BY <1>7, <1>8

-----------------------------------------------------------------------------
(* Theorems *)

LEMMA Invariance == ConformanceSpec => []Inv
  BY InvInit, InvNext, PTL DEF ConformanceSpec

\* A capture of any length, from any senders, in which verifyFrames of the kit
\* finds no error is answered with 200 by verifyConformance of the server, when
\* its fields are strings, it arrives whole and within MAX_FRAMES.
THEOREM EndpointFollowsKit == ConformanceSpec => []KitImpliesHttp
  BY Invariance, PTL DEF Inv

\* One in which the kit finds no warning either has the highest level in the
\* self test, when heartbeats count upwards and no identifier is shared.
THEOREM SelfTestFollowsKit == ConformanceSpec => []KitImpliesCanonical
  BY Invariance, PTL DEF Inv

\* Of however many captures a sweep is, exit code 0 of verify, verify:dir and
\* ltp:verify means that the endpoint refuses none that is not named fail_, and
\* that failures come from captures that are named so.
THEOREM SweepsAreClean == ConformanceSpec => []CleanSweep
  BY Invariance, PTL DEF Inv
=============================================================================
