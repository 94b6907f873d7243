--------------------------- MODULE Answers_proofs ---------------------------
(***************************************************************************)
(* Proofs about what the host answers: the HTTP routes and refresh_now,    *)
(* with any number of requests and any settings of the function pointers,  *)
(* and get_state's report, for any project and any edits of it.            *)
(***************************************************************************)
EXTENDS HttpApi, ProjectReader, FiniteSetTheorems, TLAPS

-----------------------------------------------------------------------------
(***************************************************************************)
(* refresh_now                                                             *)
(***************************************************************************)

\* What is said of the action list, and what was done to it
ListTold ==
  /\ "action list not rescanned" \in warnings => rescans = 0 /\ sws = "absent"
  /\ rescans <= 1
  /\ rebinds = 0 =>
       /\ rescans = 1 <=> fns = "set" /\ sws = "installed"
       /\ "action list not rescanned" \in warnings <=> fns = "set" /\ sws = "absent"

RefreshInv ==
  /\ fns \in {"null", "set"} /\ copied \in {"null", "set"} /\ sws \in {"absent", "installed"}
  /\ rescans \in Nat /\ rebinds \in Nat
  /\ point \in Points
  /\ point \in {"idle", "copied", "found"} => warnings = {} /\ rescans = 0
  /\ point = "idle" => rebinds = 0
  /\ point \in {"copied", "found"} /\ rebinds = 0 => copied = fns
  /\ point = "found" => copied = "set" /\ sws = "installed"
  /\ point \in {"warn", "done"} => ListTold
  /\ point = "done" => "JSFX needs a manual rescan" \in warnings

LEMMA RefreshStarts == RefreshInit => RefreshInv
  BY DEF RefreshInit, RefreshInv, Points

LEMMA RefreshKeeps ==
  ASSUME RefreshInv, UNCHANGED refreshVars
  PROVE  RefreshInv'
  BY DEF RefreshInv, ListTold, refreshVars, refresh

LEMMA RefreshNext ==
  ASSUME RefreshInv, CopyFns \/ RefreshSteps \/ RefreshReturns \/ Rebind
  PROVE  RefreshInv'
  <1>1. CASE CopyFns
    BY <1>1 DEF CopyFns, RefreshInv, Points
  <1>2. CASE SkipUnbound
    <2>1. /\ rescans = 0 /\ rescans \in Nat /\ warnings = {}
          /\ rebinds = 0 => fns = "null"
          /\ UNCHANGED <<fns, sws, copied, warnings, rescans, rebinds>>
      BY <1>2 DEF SkipUnbound, RefreshInv
    <2>2. ListTold'
      BY <2>1 DEF ListTold
    <2> QED
      BY <1>2, <2>2 DEF SkipUnbound, RefreshInv, Points
  <1>3. CASE LookUp
    <2>1. CASE sws = "installed" /\ point' = "found" /\ UNCHANGED warnings
      BY <1>3, <2>1 DEF LookUp, RefreshInv, Points
    <2>2. CASE /\ sws = "absent" /\ point' = "warn"
               /\ warnings' = warnings \cup {"action list not rescanned"}
      <3>1. /\ rescans' = 0 /\ "action list not rescanned" \in warnings'
            /\ rebinds' = 0 => fns' = "set"
            /\ sws' = "absent"
        BY <1>3, <2>2 DEF LookUp, RefreshInv
      <3>0. rescans' = 0
        BY <3>1
      <3>2. rescans' <= 1 /\ rescans' # 1
        BY <3>0
      <3>a. rebinds' = 0 => (rescans' = 1 <=> fns' = "set" /\ sws' = "installed")
        BY <3>1, <3>2
      <3>b. rebinds' = 0 => ("action list not rescanned" \in warnings' <=> fns' = "set" /\ sws' = "absent")
        BY <3>1
      <3>c. "action list not rescanned" \in warnings' => rescans' = 0 /\ sws' = "absent"
        BY <3>1
      <3>3. ListTold'
        BY <3>2, <3>a, <3>b, <3>c, Zenon DEF ListTold
      <3> QED
        BY <1>3, <2>2, <3>3 DEF LookUp, RefreshInv, Points
    <2> QED
      BY <1>3, <2>1, <2>2 DEF LookUp
  <1>4. CASE RunCommand
    <2>1. /\ rescans = 0 /\ rescans' = rescans + 1 /\ warnings = {} /\ sws = "installed"
          /\ rebinds = 0 => fns = "set"
          /\ UNCHANGED <<fns, sws, warnings, rebinds>>
      BY <1>4 DEF RunCommand, RefreshInv
    <2>2. rescans' = 1 /\ rescans' \in Nat
      BY <2>1
    <2>3. ListTold'
      <3>1. warnings' = {} /\ sws' = "installed" /\ (rebinds' = 0 => fns' = "set")
        BY <2>1
      <3> QED
        BY <2>2, <3>1 DEF ListTold
    <2> QED
      BY <1>4, <2>2, <2>3 DEF RunCommand, RefreshInv, Points
  <1>5. CASE WarnOfJsfx
    <2>1. /\ ListTold
          /\ "action list not rescanned" \in warnings' <=> "action list not rescanned" \in warnings
          /\ UNCHANGED <<fns, sws, rescans, rebinds>>
      BY <1>5 DEF WarnOfJsfx, RefreshInv
    <2>2. ListTold'
      BY <2>1 DEF ListTold
    <2> QED
      BY <1>5, <2>2 DEF WarnOfJsfx, RefreshInv, Points
  <1>6. CASE RefreshReturns
    BY <1>6 DEF RefreshReturns, RefreshInv, Points
  <1>7. CASE Rebind
    <2>1. PICK to \in {"null", "set"} : SetRefreshFns(to)
      BY <1>7 DEF Rebind
    <2>2. CASE point = "idle"
      BY <2>1, <2>2 DEF SetRefreshFns, RefreshInv, refresh
    <2>3. CASE point # "idle"
      <3>1. /\ rebinds \in Nat /\ rebinds' = rebinds + 1
            /\ UNCHANGED <<sws, copied, point, warnings, rescans>> /\ fns' = to
        BY <2>1, <2>3 DEF SetRefreshFns, RefreshInv, refresh
      <3>2. rebinds' \in Nat /\ rebinds' # 0
        BY <3>1
      <3>3. ListTold => ListTold'
        BY <3>1, <3>2 DEF ListTold
      <3> QED
        BY <2>1, <2>3, <3>1, <3>2, <3>3 DEF RefreshInv
    <2> QED
      BY <2>2, <2>3
  <1> QED
    BY <1>1, <1>2, <1>3, <1>4, <1>5, <1>6, <1>7 DEF RefreshSteps

-----------------------------------------------------------------------------
(***************************************************************************)
(* The routes                                                              *)
(***************************************************************************)

Routes == {"save", "health", "refresh", "state", "none", "artifacts", "api-reference"}

RequestType ==
  [route : Routes, flaw : Flaws \cup {"none"}, range : BOOLEAN, body : Bodies,
   name : {"valid", "invalid", "absent"}, overwrite : {"true", "not boolean", "absent"},
   register : BOOLEAN, query : {"", "known", "unknown", "bytes"}]

LEMMA RequestTypes == Requests \subseteq RequestType
  <1>0. Blank \in RequestType
    BY DEF Blank, RequestType, Routes, Bodies
  <1>1. \A x \in Routes : \A q \in {"", "known", "unknown", "bytes"} :
          [Blank EXCEPT !.route = x, !.query = q] \in RequestType
    BY <1>0 DEF RequestType
  <1>2. \A x \in Routes : [Blank EXCEPT !.route = x] \in RequestType
    BY <1>0 DEF RequestType
  <1>3. \A f \in Flaws : [Blank EXCEPT !.route = "save", !.flaw = f] \in RequestType
    BY <1>0 DEF RequestType, Routes
  <1>4. WithoutRange \subseteq RequestType
    <2>1. Asking("artifacts") \cup Asking("api-reference") \subseteq RequestType
      BY <1>1 DEF Asking, Routes
    <2>2. {[Blank EXCEPT !.route = r] : r \in {"health", "refresh", "state", "none"}}
            \subseteq RequestType
      BY <1>2 DEF Routes
    <2>3. ASSUME NEW r \in [route : {"save"}, flaw : {"none"}, range : {FALSE}, body : Bodies,
                            name : {"valid", "invalid", "absent"},
                            overwrite : {"true", "not boolean", "absent"},
                            register : BOOLEAN, query : {""}]
          PROVE  r \in RequestType
      BY <2>3 DEF RequestType, Routes
    <2> QED
      BY <2>1, <2>2, <2>3 DEF WithoutRange
  <1>5. \A r \in RequestType : [r EXCEPT !.range = TRUE] \in RequestType
    BY DEF RequestType
  <1> QED
    BY <1>3, <1>4, <1>5 DEF Requests

LEMMA ReplyFields ==
  ASSUME NEW status, NEW error, reply' = Reply(status, error)
  PROVE  reply'.status = status /\ reply'.error = error
  BY DEF Reply

\* Why what was written may replace an artifact
ByRight ==
  \/ request.overwrite = "true"
  \/ mishaps \cap {"exists failed", "another save landed"} # {}

\* What a client may conclude from a handler's reply r to a save
SaveTold(r) ==
  request.route = "save" =>
    /\ r.status = "200" => written # "nothing"
    /\ r.status \in ClientErrors => written = "nothing"
    /\ written # "nothing" /\ Utf8Everywhere /\ "file system error" \notin mishaps =>
         r.status = "200" \/ r.error = "REGISTER_FAILED"
    /\ written = "replaced" => ByRight

\* A handler's answer names its cause; one without a body is httplib's.
Caused(r) ==
  /\ r.status \in {"200"} \cup ClientErrors \cup ServerErrors
  /\ r.status = "416" => request.flaw = "bad_range"
  /\ r.error = "no body" => /\ IsError(r.status)
                            /\ request.route = "none" \/ request.flaw # "none"
  /\ r.error # "no body" =>
       /\ IsError(r.status) <=> r.error # ""
       /\ r.error = "INTERNAL" => ~Utf8Everywhere \/ "file system error" \in mishaps
       /\ r.error \notin {"NOT_FOUND", "cut off"}

Answered == {"handled", "thrown", "sent", "ended"}
Saving == {"checking", "storing", "stored"}
Waiting == {"idle", "received", "refreshing"}

\* Where a save is, and what it has done
SaveInv ==
  /\ stage \in Saving => request.route = "save"
  /\ stage = "storing" /\ target = "present" => ByRight
  /\ stage \notin Answered \cup {"stored"} => written = "nothing"
  /\ stage \notin Answered => reply = NoReply
  /\ stage = "stored" => written \in {"created", "replaced"}
  /\ stage \in {"stored", "thrown"} /\ written = "replaced" /\ request.route = "save" => ByRight

ApiInv ==
  /\ RefreshInv
  /\ stage \in Routes \cup Answered \cup Saving \cup Waiting
  /\ stage \in Routes => request.route = stage
  /\ request.route \in Routes /\ request.flaw \in Flaws \cup {"none"}
  /\ stage = "refreshing" => request.route = "refresh"
  /\ stage = "thrown" => ~Utf8Everywhere \/ "file system error" \in mishaps
  /\ stage = "handled" => Caused(reply) /\ SaveTold(reply)
  /\ SaveInv
  /\ ErrorsNameTheirCause /\ SaveAnswersHonestly

LEMMA ApiStarts == ApiInit => ApiInv
  <1> SUFFICES ASSUME ApiInit PROVE ApiInv
    OBVIOUS
  <1>1. RefreshInv
    BY RefreshStarts DEF ApiInit
  <1>2. request.route = "health" /\ request.flaw = "none" /\ stage = "idle" /\ reply = NoReply /\ written = "nothing"
    BY DEF ApiInit, Blank
  <1> QED
    BY <1>1, <1>2
    DEF ApiInv, SaveInv, Routes, Saving, Waiting, Answered, ErrorsNameTheirCause,
        SaveAnswersHonestly

\* Nothing is said of a request that is on its way to its handler.
LEMMA OnItsWay ==
  ASSUME ApiInv, RefreshInv', request'.route \in Routes,
         request'.flaw \in Flaws \cup {"none"},
         written' = "nothing", reply' = NoReply,
         \/ stage' = "idle" \/ stage' = "received"
         \/ stage' \in Routes /\ request'.route = stage'
         \/ stage' = "refreshing" /\ request'.route = "refresh"
         \/ stage' = "checking" /\ request'.route = "save"
  PROVE  ApiInv'
  <1>1. stage' \notin Answered /\ stage' \notin {"storing", "stored"}
    BY DEF Answered, Routes
  <1>2. SaveInv'
    BY <1>1 DEF ApiInv, SaveInv, Saving, Routes, Answered
  <1>3. ErrorsNameTheirCause' /\ SaveAnswersHonestly'
    BY <1>1 DEF ErrorsNameTheirCause, SaveAnswersHonestly, Answered
  <1> QED
    BY <1>1, <1>2, <1>3 DEF ApiInv, Routes, Saving, Waiting, Answered

\* A handler answers, or throws for a text that is not UTF-8 or a path.
LEMMA HandlerAnswers ==
  ASSUME ApiInv, stage \notin Answered, RefreshInv', UNCHANGED <<ascii, request>>,
         \/ stage' = "handled" /\ Caused(reply)' /\ SaveTold(reply)'
         \/ /\ stage' = "thrown"
            /\ ~Utf8Everywhere \/ "file system error" \in mishaps'
            /\ request.route = "save" /\ written' = "replaced" => ByRight'
  PROVE  ApiInv'
  <1>1. Utf8Everywhere' <=> Utf8Everywhere
    BY DEF Utf8Everywhere
  <1>2. SaveInv'
    BY DEF SaveInv, Saving, Answered
  <1>3. ErrorsNameTheirCause' /\ SaveAnswersHonestly'
    BY DEF ErrorsNameTheirCause, SaveAnswersHonestly
  <1> QED
    BY <1>1, <1>2, <1>3 DEF ApiInv, Routes, Saving, Waiting, Answered

\* set_content, with status and error that fit what was done
LEMMA AnswerFits ==
  ASSUME ApiInv, stage \notin Answered, RefreshInv', UNCHANGED <<ascii, request, mishaps>>,
         NEW CONSTANT status \in {"200", "400", "409", "500", "501"},
         NEW CONSTANT error,
         error \notin {"no body", "INTERNAL", "NOT_FOUND", "cut off"},
         error = "" <=> status = "200",
         NEW isUtf8, AnswerWith(Reply(status, error), isUtf8),
         Utf8Everywhere => isUtf8,
         request.route = "save" =>
           /\ status = "200" => written' # "nothing"
           /\ status \in {"400", "409"} => written' = "nothing"
           /\ written' # "nothing" => error \in {"", "REGISTER_FAILED"}
           /\ written' = "replaced" => ByRight
  PROVE  ApiInv'
  <1>0. ByRight' <=> ByRight
    BY DEF ByRight
  <1>1. CASE ~isUtf8
    BY <1>0, <1>1, HandlerAnswers DEF AnswerWith
  <1>2. CASE isUtf8
    <2>1. /\ stage' = "handled" /\ reply' = Reply(status, error)
          /\ reply'.status = status /\ reply'.error = error
      BY <1>2, ReplyFields DEF AnswerWith
    <2>2. IsError(status) <=> error # ""
      BY DEF IsError, ClientErrors, ServerErrors
    <2>3. Caused(reply)'
      BY <2>1, <2>2 DEF Caused, IsError, ClientErrors, ServerErrors
    <2>4. SaveTold(reply)'
      BY <1>0, <2>1 DEF SaveTold, ClientErrors
    <2> QED
      BY <2>1, <2>3, <2>4, HandlerAnswers
  <1> QED
    BY <1>1, <1>2

\* The refresh's variables do not change outside of it.
LEMMA ElsewhereRefreshStays ==
  ASSUME ApiInv, UNCHANGED refreshVars
  PROVE  RefreshInv'
  BY RefreshKeeps DEF ApiInv

\* Whether and why a save writes, from its body to its answer
LEMMA SaveNext ==
  ASSUME ApiInv, SaveParse \/ SaveCheck \/ SaveStore \/ SaveAnswer
  PROVE  ApiInv'
  <1>0. /\ stage \notin Answered /\ UNCHANGED <<refreshVars, ascii, request>> /\ RefreshInv'
        /\ stage \in {"save"} \cup Saving
    BY ElsewhereRefreshStays
    DEF SaveParse, SaveCheck, SaveStore, SaveAnswer, Answered, Saving
  <1>r. request.route = "save" /\ request.flaw \in Flaws \cup {"none"}
    BY <1>0 DEF ApiInv, SaveInv, Routes
  <1>1. CASE SaveParse
    <2>1. written = "nothing" /\ reply = NoReply /\ UNCHANGED <<written, mishaps>>
      BY <1>0, <1>1 DEF SaveParse, ApiInv, SaveInv
    <2>2. CASE stage' = "checking" /\ UNCHANGED reply
      BY <1>0, <1>r, <2>1, <2>2, OnItsWay DEF Routes
    <2>3. CASE AnswerWith(Reply("400", "INVALID_JSON"), request.body # "malformed bytes")
      BY <1>0, <2>1, <2>3, AnswerFits DEF Utf8Everywhere
    <2> QED
      BY <1>1, <2>2, <2>3 DEF SaveParse
  <1>2. CASE SaveCheck
    <2>1. written = "nothing" /\ reply = NoReply /\ UNCHANGED <<written, target>>
          /\ stage = "checking"
      BY <1>0, <1>2 DEF SaveCheck, ApiInv, SaveInv
    <2>2. CASE reply' = Reply("400", "INVALID_NAME") /\ stage' = "handled" /\ UNCHANGED mishaps
      <3>1. AnswerWith(Reply("400", "INVALID_NAME"), TRUE)
        BY <2>2 DEF AnswerWith
      <3> QED
        BY <1>0, <2>1, <2>2, <3>1, AnswerFits
    <2>3. CASE FileSystemError /\ UNCHANGED reply
      BY <1>0, <2>1, <2>3, HandlerAnswers DEF FileSystemError
    <2>4. CASE AnswerWith(Reply("409", "FILE_EXISTS"), "base dir" \in ascii) /\ UNCHANGED mishaps
      BY <1>0, <2>1, <2>4, AnswerFits DEF Utf8Everywhere
    <2>5. CASE /\ stage' = "storing" /\ UNCHANGED reply
               /\ \/ (target = "missing" \/ Overwrite) /\ UNCHANGED mishaps
                  \/ mishaps' = mishaps \cup {"exists failed"}
      <3>1. target' = "present" => ByRight'
        BY <1>0, <2>1, <2>5 DEF Overwrite, ByRight
      <3>2. SaveInv'
        BY <1>0, <1>r, <2>1, <2>5, <3>1 DEF SaveInv, Answered, Saving
      <3>3. ErrorsNameTheirCause' /\ SaveAnswersHonestly'
        BY <2>5 DEF ErrorsNameTheirCause, SaveAnswersHonestly
      <3> QED
        BY <1>0, <2>5, <3>2, <3>3 DEF ApiInv, Routes, Saving, Waiting, Answered
    <2> QED
      BY <1>2, <2>2, <2>3, <2>4, <2>5 DEF SaveCheck
  <1>3. CASE SaveStore
    <2>1. written = "nothing" /\ reply = NoReply /\ UNCHANGED mishaps /\ stage = "storing"
      BY <1>0, <1>3 DEF SaveStore, ApiInv, SaveInv
    <2>2. ASSUME NEW tmpNamed \in BOOLEAN, UNCHANGED <<target, written>>,
                 AnswerWith(Reply("500", "WRITE_FAILED"), tmpNamed => "base dir" \in ascii)
          PROVE  ApiInv'
      BY <1>0, <2>1, <2>2, AnswerFits DEF Utf8Everywhere
    <2>3. CASE /\ written' = (IF target = "present" THEN "replaced" ELSE "created")
               /\ stage' = "stored" /\ UNCHANGED reply
      <3>1. written' = "replaced" => ByRight'
        BY <1>0, <2>1, <2>3 DEF ApiInv, SaveInv, ByRight
      <3>2. SaveInv'
        BY <1>0, <1>r, <2>1, <2>3, <3>1 DEF SaveInv, Answered, Saving
      <3>3. ErrorsNameTheirCause' /\ SaveAnswersHonestly'
        BY <2>3 DEF ErrorsNameTheirCause, SaveAnswersHonestly
      <3> QED
        BY <1>0, <2>3, <3>2, <3>3 DEF ApiInv, Routes, Saving, Waiting, Answered
    <2> QED
      BY <1>3, <2>2, <2>3 DEF SaveStore
  <1>4. CASE SaveAnswer
    <2>1. /\ written \in {"created", "replaced"} /\ UNCHANGED <<written, target>>
          /\ written = "replaced" => ByRight
      BY <1>0, <1>r, <1>4 DEF SaveAnswer, ApiInv, SaveInv
    <2>2. CASE FileSystemError
      <3>1. ByRight => ByRight'
        BY <1>0, <2>2 DEF FileSystemError, ByRight
      <3> QED
        BY <1>0, <2>1, <2>2, <3>1, HandlerAnswers DEF FileSystemError
    <2>3. CASE AnswerWith(Reply("200", ""), "base dir" \in ascii) /\ UNCHANGED mishaps
      BY <1>0, <2>1, <2>3, AnswerFits DEF Utf8Everywhere
    <2>4. CASE AnswerWith(Reply("500", "REGISTER_FAILED"), "base dir" \in ascii)
               /\ UNCHANGED mishaps
      BY <1>0, <2>1, <2>4, AnswerFits DEF Utf8Everywhere
    <2> QED
      BY <1>4, <2>2, <2>3, <2>4 DEF SaveAnswer
  <1> QED
    BY <1>1, <1>2, <1>3, <1>4

\* The routes that write nothing
LEMMA ReadNext ==
  ASSUME ApiInv, FixedAnswer \/ ArtifactsAnswer \/ ApiReferenceAnswer
  PROVE  ApiInv'
  <1>0. /\ stage \in {"health", "state", "artifacts", "api-reference"} /\ stage \notin Answered
        /\ UNCHANGED <<refreshVars, ascii, request, mishaps>> /\ RefreshInv'
    BY ElsewhereRefreshStays
    DEF FixedAnswer, ArtifactsAnswer, ApiReferenceAnswer, Answered
  <1>r. request.route # "save"
    BY <1>0 DEF ApiInv, Routes
  <1>1. CASE FixedAnswer
    <2>1. \/ AnswerWith(Reply("200", ""), TRUE)
          \/ AnswerWith(Reply("501", "NOT_IMPLEMENTED"), TRUE)
      BY <1>1 DEF FixedAnswer, AnswerWith
    <2> QED
      BY <1>0, <1>r, <2>1, AnswerFits
  <1>2. CASE ArtifactsAnswer
    <2>1. ASSUME NEW found \in BOOLEAN,
                 AnswerWith(Reply("200", ""), found => ascii = {"base dir", "file names"})
          PROVE  ApiInv'
      BY <1>0, <1>r, <2>1, AnswerFits DEF Utf8Everywhere
    <2>2. CASE AnswerWith(Reply("400", "INVALID_KIND"), request.query # "bytes")
      BY <1>0, <1>r, <2>2, AnswerFits DEF Utf8Everywhere
    <2> QED
      BY <1>2, <2>1, <2>2 DEF ArtifactsAnswer
  <1>3. CASE ApiReferenceAnswer
    <2>1. \/ AnswerWith(Reply("400", "MISSING_TARGET"), request.query # "bytes")
          \/ AnswerWith(Reply("200", ""), request.query # "bytes")
          \/ AnswerWith(Reply("400", "INVALID_TARGET"), request.query # "bytes")
      BY <1>3 DEF ApiReferenceAnswer
    <2> QED
      BY <1>0, <1>r, <2>1, AnswerFits DEF Utf8Everywhere
  <1> QED
    BY <1>1, <1>2, <1>3

\* The hooks: what the error handler leaves or fills in, and what a range cuts
LEMMA SendNext ==
  ASSUME ApiInv, Send
  PROVE  ApiInv'
  <1>0. /\ stage = "handled" /\ Caused(reply) /\ SaveTold(reply) /\ RefreshInv'
        /\ UNCHANGED <<refreshVars, ascii, target, request, written, mishaps>>
    BY ElsewhereRefreshStays DEF Send, ApiInv
  <1>1. ASSUME stage' = "sent", ErrorsNameTheirCause', SaveAnswersHonestly'
        PROVE  ApiInv'
    <2>1. SaveInv'
      BY <1>1 DEF SaveInv, Saving, Answered
    <2> QED
      BY <1>0, <1>1, <2>1 DEF ApiInv, Routes, Saving, Waiting, Answered
  <1>2. CASE RangeApplies /\ stage' = "ended" /\ UNCHANGED reply
    <2>1. SaveInv'
      BY <1>2 DEF SaveInv, Saving, Answered
    <2>2. ErrorsNameTheirCause' /\ SaveAnswersHonestly'
      BY <1>2 DEF ErrorsNameTheirCause, SaveAnswersHonestly
    <2> QED
      BY <1>0, <1>2, <2>1, <2>2 DEF ApiInv, Routes, Saving, Waiting, Answered
  <1>3. CASE RangeApplies /\ reply' = Reply(reply.status, "cut off") /\ stage' = "sent"
    <2>1. /\ reply'.status = reply.status /\ reply'.error = "cut off" /\ request.range
          /\ IsError(reply.status) /\ reply.status # "200"
      BY <1>3 DEF RangeApplies, Reply, IsError, ClientErrors, ServerErrors
    <2>2. ErrorsNameTheirCause'
      BY <1>0, <2>1 DEF ErrorsNameTheirCause, IsError
    <2>3. SaveAnswersHonestly'
      BY <1>0, <2>1 DEF SaveAnswersHonestly, SaveTold, ByRight
    <2> QED
      BY <1>1, <1>3, <2>2, <2>3
  <1>4. CASE reply' = FallBack(RangeChecked(reply)) /\ stage' = "sent"
    <2>1. CASE request.range /\ reply.status = "200"
      <3>1. reply'.status = "416" /\ reply'.error = "NOT_FOUND"
        BY <1>4, <2>1
        DEF FallBack, RangeChecked, Reply, IsError, ClientErrors, ServerErrors
      <3>2. ErrorsNameTheirCause'
        BY <1>0, <2>1, <3>1 DEF ErrorsNameTheirCause, IsError, ClientErrors
      <3>3. SaveAnswersHonestly'
        BY <1>0, <2>1, <3>1 DEF SaveAnswersHonestly, SaveTold, ByRight
      <3> QED
        BY <1>1, <1>4, <3>2, <3>3
    <2>2. CASE ~(request.range /\ reply.status = "200") /\ reply.error = "no body"
      <3>1. /\ reply'.status = reply.status /\ reply'.error = "NOT_FOUND"
            /\ IsError(reply.status)
        BY <1>0, <1>4, <2>2 DEF FallBack, RangeChecked, Reply, Caused
      <3>2. ErrorsNameTheirCause'
        BY <1>0, <2>2, <3>1 DEF ErrorsNameTheirCause, Caused, IsError
      <3>3. reply.status # "200"
        BY <3>1 DEF IsError, ClientErrors, ServerErrors
      <3>4. SaveAnswersHonestly'
        BY <1>0, <2>2, <3>1, <3>3 DEF SaveAnswersHonestly, SaveTold, ByRight, Utf8Everywhere
      <3> QED
        BY <1>1, <1>4, <3>2, <3>4
    <2>3. CASE ~(request.range /\ reply.status = "200") /\ reply.error # "no body"
      <3>1. reply' = reply
        BY <1>4, <2>3 DEF FallBack, RangeChecked
      <3>2. ErrorsNameTheirCause'
        BY <1>0, <2>3, <3>1 DEF ErrorsNameTheirCause, Caused, IsError, Utf8Everywhere
      <3>3. SaveAnswersHonestly'
        BY <1>0, <3>1 DEF SaveAnswersHonestly, SaveTold, ByRight, Utf8Everywhere
      <3> QED
        BY <1>1, <1>4, <3>2, <3>3
    <2> QED
      BY <2>1, <2>2, <2>3
  <1> QED
    BY <1>2, <1>3, <1>4 DEF Send

LEMMA ServeNext ==
  ASSUME ApiInv, ServeStep
  PROVE  ApiInv'
  <1>1. CASE Refuse \/ NoRoute
    <2>1. /\ stage = "received" /\ stage' = "handled"
          /\ UNCHANGED <<refreshVars, ascii, target, request, written, mishaps>>
      BY <1>1 DEF Refuse, NoRoute
    <2>a. RefreshInv' /\ written = "nothing"
      BY <2>1, ElsewhereRefreshStays DEF ApiInv, SaveInv, Answered
    <2>f. request.flaw \in Flaws
          => \/ request.flaw = "bad_range" /\ Refusal[request.flaw] = "416"
             \/ request.flaw # "none" /\ Refusal[request.flaw] \in {"400", "413", "414", "415", "500"}
      BY DEF Refusal, Flaws
    <2>2. /\ reply'.error = "no body" /\ IsError(reply'.status)
          /\ request.route = "none" \/ request.flaw # "none"
          /\ reply'.status = "416" => request.flaw = "bad_range"
      <3>1. CASE Refuse
        <4>1. reply'.error = "no body" /\ reply'.status = Refusal[request.flaw]
          BY <3>1, ReplyFields DEF Refuse
        <4>2. request.flaw \in Flaws
          BY <3>1 DEF Refuse, ApiInv
        <4> QED
          BY <2>f, <4>1, <4>2 DEF IsError, ClientErrors, ServerErrors
      <3>2. CASE NoRoute
        <4>1. reply'.error = "no body" /\ reply'.status = "404" /\ request.route = "none"
          BY <3>2, ReplyFields DEF NoRoute
        <4> QED
          BY <4>1 DEF IsError, ClientErrors
      <3> QED
        BY <1>1, <3>1, <3>2
    <2>3. Caused(reply)' /\ SaveTold(reply)'
      BY <2>1, <2>a, <2>2 DEF Caused, SaveTold, IsError, ClientErrors, ServerErrors
    <2> QED
      BY <2>1, <2>a, <2>3, HandlerAnswers DEF Answered
  <1>2. CASE Dispatch
    <2>1. RefreshInv' /\ written = "nothing" /\ reply = NoReply
      BY <1>2, ElsewhereRefreshStays DEF Dispatch, ApiInv, SaveInv, Answered
    <2> QED
      BY <1>2, <2>1, OnItsWay DEF Dispatch, ApiInv
  <1>3. CASE FixedAnswer \/ ArtifactsAnswer \/ ApiReferenceAnswer
    BY <1>3, ReadNext
  <1>4. CASE SaveParse \/ SaveCheck \/ SaveStore \/ SaveAnswer
    BY <1>4, SaveNext
  <1>5. CASE RefreshBegin \/ RefreshGoesOn
    <2>1. RefreshInv'
      BY <1>5, RefreshNext DEF RefreshBegin, RefreshGoesOn, ApiInv
    <2>2. stage \in {"refresh", "refreshing"} /\ stage' = "refreshing"
          /\ UNCHANGED <<ascii, request, reply, written>>
      BY <1>5 DEF RefreshBegin, RefreshGoesOn, api
    <2>3. /\ request.route = "refresh" /\ written = "nothing" /\ reply = NoReply
          /\ request.flaw \in Flaws \cup {"none"}
      BY <2>2 DEF ApiInv, SaveInv, Routes, Answered
    <2> QED
      BY <2>1, <2>2, <2>3, OnItsWay DEF Routes
  <1>6. CASE RefreshAnswers
    <2>1. RefreshInv'
      BY <1>6, RefreshNext DEF RefreshAnswers, ApiInv
    <2>2. /\ stage = "refreshing" /\ request.route # "save"
          /\ AnswerWith(Reply("200", ""), TRUE) /\ UNCHANGED <<ascii, request, mishaps>>
      BY <1>6 DEF RefreshAnswers, ApiInv, AnswerWith
    <2> QED
      BY <2>1, <2>2, AnswerFits DEF Answered
  <1>7. CASE AnswerException
    <2>0. /\ stage = "thrown" /\ RefreshInv'
          /\ UNCHANGED <<refreshVars, ascii, target, request, written, mishaps>>
          /\ ~Utf8Everywhere \/ "file system error" \in mishaps
          /\ request.route = "save" /\ written = "replaced" => ByRight
      BY <1>7, ElsewhereRefreshStays DEF AnswerException, ApiInv, SaveInv
    <2>1. CASE reply' = Reply("500", "INTERNAL") /\ stage' = "handled"
      <3>1. reply'.status = "500" /\ reply'.error = "INTERNAL"
        BY <2>1, ReplyFields
      <3>2. Caused(reply)' /\ SaveTold(reply)'
        BY <2>0, <3>1
        DEF Caused, SaveTold, IsError, ClientErrors, ServerErrors, Utf8Everywhere, ByRight
      <3>3. SaveInv'
        BY <2>1 DEF SaveInv, Saving, Answered
      <3>4. ErrorsNameTheirCause' /\ SaveAnswersHonestly'
        BY <2>1 DEF ErrorsNameTheirCause, SaveAnswersHonestly
      <3> QED
        BY <2>0, <2>1, <3>2, <3>3, <3>4 DEF ApiInv, Routes, Saving, Waiting, Answered
    <2>2. CASE stage' = "ended"
      <3>1. SaveInv'
        BY <2>2 DEF SaveInv, Saving, Answered
      <3>2. ErrorsNameTheirCause' /\ SaveAnswersHonestly'
        BY <2>2 DEF ErrorsNameTheirCause, SaveAnswersHonestly
      <3> QED
        BY <2>0, <2>2, <3>1, <3>2 DEF ApiInv, Routes, Saving, Waiting, Answered
    <2> QED
      BY <1>7, <2>1, <2>2 DEF AnswerException
  <1>8. CASE Send
    BY <1>8, SendNext
  <1>9. CASE Done
    <2>1. RefreshInv' /\ request'.route \in Routes /\ stage' = "idle" /\ reply' = NoReply
          /\ written' = "nothing" /\ request'.flaw = "none"
      BY <1>9, ElsewhereRefreshStays DEF Done, Blank, Routes
    <2> QED
      BY <2>1, OnItsWay
  <1> QED
    BY <1>1, <1>2, <1>3, <1>4, <1>5, <1>6, <1>7, <1>8, <1>9 DEF ServeStep

\* What others do leaves the answer as it is.
LEMMA SameAnswer ==
  ASSUME ApiInv, RefreshInv', UNCHANGED <<ascii, request, stage, reply, written>>,
         \/ UNCHANGED <<target, mishaps>>
         \/ stage # "storing" /\ UNCHANGED mishaps
         \/ /\ stage = "storing"
            /\ target' = "present" => "another save landed" \in mishaps'
  PROVE  ApiInv'
  <1>1. CASE UNCHANGED mishaps /\ (stage # "storing" \/ UNCHANGED target)
    <2>1. Caused(reply) => Caused(reply)'
      BY <1>1 DEF Caused, Utf8Everywhere
    <2>2. SaveTold(reply) => SaveTold(reply)'
      BY <1>1 DEF SaveTold, Utf8Everywhere, ByRight
    <2>3. (ErrorsNameTheirCause /\ SaveAnswersHonestly)'
      BY <1>1 DEF ApiInv, ErrorsNameTheirCause, SaveAnswersHonestly, Utf8Everywhere
    <2>4. (Utf8Everywhere' <=> Utf8Everywhere) /\ (ByRight' <=> ByRight)
      BY <1>1 DEF Utf8Everywhere, ByRight
    <2>5. SaveInv'
      BY <1>1, <2>4 DEF ApiInv, SaveInv
    <2> QED
      BY <1>1, <2>1, <2>2, <2>3, <2>4, <2>5 DEF ApiInv
  <1>2. CASE stage = "storing" /\ (target' = "present" => "another save landed" \in mishaps')
    <2>1. target' = "present" => ByRight'
      BY <1>2 DEF ByRight
    <2>2. SaveInv'
      BY <1>2, <2>1 DEF ApiInv, SaveInv, Saving, Answered
    <2>3. (ErrorsNameTheirCause /\ SaveAnswersHonestly)'
      BY <1>2 DEF ErrorsNameTheirCause, SaveAnswersHonestly
    <2> QED
      BY <1>2, <2>2, <2>3 DEF ApiInv, Routes
  <1> QED
    BY <1>1, <1>2

LEMMA ApiKeeps == ApiInv /\ [ApiNext]_apiVars => ApiInv'
  <1> SUFFICES ASSUME ApiInv, [ApiNext]_apiVars PROVE ApiInv'
    OBVIOUS
  <1>1. ASSUME NEW r \in Requests, Accept(r) PROVE ApiInv'
    <2>1. RefreshInv'
      BY <1>1, ElsewhereRefreshStays DEF Accept
    <2>2. r \in RequestType
      BY RequestTypes
    <2>3. request'.route \in Routes /\ request'.flaw \in Flaws \cup {"none"}
      BY <1>1, <2>2 DEF Accept, RequestType
    <2>4. stage' = "received" /\ written' = "nothing" /\ reply' = NoReply
      BY <1>1 DEF Accept, ApiInv, SaveInv, Answered
    <2> QED
      BY <2>1, <2>3, <2>4, OnItsWay
  <1>2. CASE ServeStep
    BY <1>2, ServeNext
  <1>3. CASE OthersChange
    <2>1. RefreshInv' /\ UNCHANGED <<ascii, request, stage, reply, written>>
      BY <1>3, ElsewhereRefreshStays DEF OthersChange
    <2>2. \/ stage # "storing" /\ UNCHANGED mishaps
          \/ /\ stage = "storing"
             /\ target' = "present" => "another save landed" \in mishaps'
      BY <1>3 DEF OthersChange
    <2> QED
      BY <2>1, <2>2, SameAnswer
  <1>4. CASE Rebind /\ UNCHANGED <<ascii, api>>
    <2>1. RefreshInv'
      BY <1>4, RefreshNext DEF ApiInv
    <2>2. UNCHANGED <<ascii, request, stage, reply, written, target, mishaps>>
      BY <1>4 DEF api
    <2> QED
      BY <2>1, <2>2, SameAnswer
  <1>5. CASE UNCHANGED apiVars
    <2>1. RefreshInv'
      BY <1>5, ElsewhereRefreshStays DEF apiVars
    <2>2. UNCHANGED <<ascii, request, stage, reply, written, target, mishaps>>
      BY <1>5 DEF apiVars, api
    <2> QED
      BY <2>1, <2>2, SameAnswer
  <1> QED
    BY <1>1, <1>2, <1>3, <1>4, <1>5 DEF ApiNext

LEMMA ApiInvariant == ApiSpec => []ApiInv
  <1> HIDE DEF ApiInv, ApiInit, ApiNext, apiVars
  <1> QED
    BY ApiStarts, ApiKeeps, PTL DEF ApiSpec

\* The answer to a refresh is true of what was done, whoever sets or resets the
\* function pointers meanwhile.
THEOREM RefreshIsTrue == ApiSpec => []RefreshTellsTheTruth
  <1>1. ApiInv => RefreshTellsTheTruth
    BY DEF ApiInv, RefreshInv, ListTold, RefreshTellsTheTruth
  <1> QED
    BY <1>1, ApiInvariant, PTL

\* Every error answer of every route has a body that names its cause.
THEOREM CausesNamed == ApiSpec => []ErrorsNameTheirCause
  <1>1. ApiInv => ErrorsNameTheirCause
    BY DEF ApiInv
  <1> QED
    BY <1>1, ApiInvariant, PTL

\* The status of a save tells whether its artifact is in place.
THEOREM SavesAreHonest == ApiSpec => []SaveAnswersHonestly
  <1>1. ApiInv => SaveAnswersHonestly
    BY DEF ApiInv
  <1> QED
    BY <1>1, ApiInvariant, PTL

-----------------------------------------------------------------------------
(***************************************************************************)
(* Induction, and the elements that Without leaves                         *)
(***************************************************************************)

\* A set that holds 0 and, with a number, the next one, holds every number.  Were
\* m missing, adding 1 would take the numbers of the set below m, one to one, to
\* those of them that are not 0, which are fewer.
LEMMA InductionOnNat ==
  ASSUME NEW S, 0 \in S, \A k \in Nat : k \in S => k + 1 \in S
  PROVE  \A k \in Nat : k \in S
  <1> SUFFICES ASSUME NEW m \in Nat, m \notin S PROVE FALSE
    OBVIOUS
  <1> DEFINE A == {k \in 0 .. m : k \in S}
             f == [k \in A |-> k + 1]
  <1>1. IsFiniteSet(0 .. m)
    BY FS_Interval
  <1>2. A \in SUBSET (0 .. m)
    OBVIOUS
  <1>3. IsFiniteSet(A) /\ 0 \in A
    <2> HIDE DEF A
    <2>1. IsFiniteSet(A)
      BY <1>1, <1>2, FS_Subset
    <2> QED
      BY <2>1 DEF A
  <1>4. \A k \in A : k + 1 \in A \ {0}
    <2> TAKE k \in A
    <2>1. k \in Nat /\ k \in S /\ k <= m /\ k # m
      OBVIOUS
    <2> QED
      BY <2>1
  <1>5. f \in [A -> A \ {0}]
    BY <1>4
  <1>6. IsFiniteSet(A \ {0}) /\ Cardinality(A \ {0}) < Cardinality(A)
    <2> HIDE DEF A
    <2>1. /\ IsFiniteSet(A \ {0}) /\ Cardinality(A \ {0}) = Cardinality(A) - 1
          /\ Cardinality(A) \in Nat
      BY <1>3, FS_RemoveElement, FS_CardinalityType
    <2> QED
      BY <2>1
  <1>7. PICK x \in A, y \in A : x # y /\ f[x] = f[y]
    <2> HIDE DEF A, f
    <2> QED
      BY <1>3, <1>5, <1>6, FS_PigeonHole
  <1>8. x \in Nat /\ y \in Nat /\ f[x] = x + 1 /\ f[y] = y + 1
    OBVIOUS
  <1> QED
    BY <1>7, <1>8

\* The steps Without takes through a sequence
Kept(f, sq, gone, m) ==
  f = [k \in 0 .. m |->
         IF k = 0 THEN <<>>
         ELSE IF sq[k] \in gone THEN f[k - 1] ELSE Append(f[k - 1], sq[k])]

LEMMA KeptExists ==
  ASSUME NEW sq, NEW gone
  PROVE  \A m \in Nat : \E f : Kept(f, sq, gone, m)
  <1> DEFINE D == {m \in Nat : \E f : Kept(f, sq, gone, m)}
  <1>1. 0 \in D
    <2>1. Kept([k \in 0 .. 0 |-> <<>>], sq, gone, 0)
      BY DEF Kept
    <2> QED
      BY <2>1
  <1>2. ASSUME NEW m \in Nat, m \in D PROVE m + 1 \in D
    <2>1. PICK f : Kept(f, sq, gone, m)
      BY <1>2
    <2> DEFINE e == IF sq[m + 1] \in gone THEN f[m] ELSE Append(f[m], sq[m + 1])
               g == [k \in 0 .. m + 1 |-> IF k = m + 1 THEN e ELSE f[k]]
    <2>2. \A k \in 0 .. m : f[k] = IF k = 0 THEN <<>>
            ELSE IF sq[k] \in gone THEN f[k - 1] ELSE Append(f[k - 1], sq[k])
      BY <2>1 DEF Kept
    <2>3. ASSUME NEW k \in 0 .. m + 1
          PROVE  g[k] = IF k = 0 THEN <<>>
                   ELSE IF sq[k] \in gone THEN g[k - 1] ELSE Append(g[k - 1], sq[k])
      <3>1. CASE k = m + 1
        <4>1. g[k] = e /\ g[k - 1] = f[m] /\ k # 0 /\ k - 1 = m
          BY <3>1
        <4> QED
          BY <3>1, <4>1
      <3>2. CASE k # m + 1
        <4>1. k \in 0 .. m /\ g[k] = f[k]
          BY <3>2
        <4>2. k # 0 => g[k - 1] = f[k - 1]
          BY <3>2
        <4> HIDE DEF g
        <4> QED
          BY <2>2, <4>1, <4>2
      <3> QED
        BY <3>1, <3>2
    <2>4. g = [k \in 0 .. m + 1 |-> g[k]]
      OBVIOUS
    <2>5. Kept(g, sq, gone, m + 1)
      <3> HIDE DEF g
      <3> QED
        BY <2>3, <2>4 DEF Kept
    <2> HIDE DEF g
    <2> QED
      BY <2>5
  <1> HIDE DEF D
  <1>3. \A m \in Nat : m \in D
    BY <1>1, <1>2, InductionOnNat
  <1> QED
    BY <1>3 DEF D

\* What Without keeps are elements of the sequence, in a sequence that repeats
\* none if the given one does not.
LEMMA WithoutKeeps ==
  ASSUME NEW S, NEW sq \in Seq(S), NEW gone
  PROVE  /\ Without(sq, gone) \in Seq(S)
         /\ (\A i, j \in 1 .. Len(sq) : sq[i] = sq[j] => i = j) =>
              \A i, j \in 1 .. Len(Without(sq, gone)) :
                 Without(sq, gone)[i] = Without(sq, gone)[j] => i = j
  <1> DEFINE n == Len(sq)
             kept == CHOOSE f : Kept(f, sq, gone, n)
  <1>0. n \in Nat
    OBVIOUS
  <1>1. Kept(kept, sq, gone, n)
    <2>1. \E f : Kept(f, sq, gone, n)
      BY <1>0, KeptExists
    <2> QED
      BY <2>1
  <1>2. Without(sq, gone) = kept[n]
    BY DEF Without, Kept
  <1> HIDE DEF kept
  <1>3. \A k \in 0 .. n : kept[k] = IF k = 0 THEN <<>>
          ELSE IF sq[k] \in gone THEN kept[k - 1] ELSE Append(kept[k - 1], sq[k])
    BY <1>1 DEF Kept
  <1> DEFINE From(k) == \A i \in 1 .. Len(kept[k]) : \E j \in 1 .. k : kept[k][i] = sq[j]
             Once(k) == \A i, j \in 1 .. Len(kept[k]) : kept[k][i] = kept[k][j] => i = j
             Right(k) == /\ kept[k] \in Seq(S) /\ From(k)
                         /\ (\A i, j \in 1 .. n : sq[i] = sq[j] => i = j) => Once(k)
             D == {k \in Nat : k <= n => Right(k)}
  <1>4. 0 \in D
    <2>1. kept[0] = <<>>
      BY <1>0, <1>3
    <2>2. kept[0] \in Seq(S) /\ Len(kept[0]) = 0
      BY <2>1
    <2>3. 1 .. Len(kept[0]) = {}
      BY <2>2
    <2> QED
      BY <2>2, <2>3
  <1>d. \A k \in Nat : k \in D <=> (k <= n => Right(k))
    <2> HIDE DEF Right
    <2> QED
      OBVIOUS
  <1>5. ASSUME NEW k \in Nat, k \in D PROVE k + 1 \in D
    <2>0. k + 1 \in Nat
      OBVIOUS
    <2> SUFFICES ASSUME k + 1 <= n
                 PROVE  Right(k + 1)
      <3> HIDE DEF D, Right
      <3> QED
        BY <1>d, <2>0
    <2>1. /\ kept[k] \in Seq(S) /\ From(k)
          /\ (\A i, j \in 1 .. n : sq[i] = sq[j] => i = j) => Once(k)
      BY <1>5
    <2>2. k + 1 \in 0 .. n /\ k + 1 # 0 /\ (k + 1) - 1 = k
      OBVIOUS
    <2>3. kept[k + 1] = IF sq[k + 1] \in gone THEN kept[k] ELSE Append(kept[k], sq[k + 1])
      BY <1>3, <2>2
    <2>4. CASE sq[k + 1] \in gone
      <3>1. kept[k + 1] = kept[k]
        BY <2>3, <2>4
      <3> QED
        BY <2>1, <3>1
    <2>5. CASE sq[k + 1] \notin gone
      <3>1. sq[k + 1] \in S
        OBVIOUS
      <3> DEFINE old == kept[k]
                 new == kept[k + 1]
      <3>2. new = Append(old, sq[k + 1])
        BY <2>3, <2>5
      <3> HIDE DEF old, new
      <3>3. old \in Seq(S)
        BY <2>1 DEF old
      <3>4. /\ new \in Seq(S) /\ Len(old) \in Nat /\ Len(new) = Len(old) + 1
            /\ \A i \in 1 .. Len(old) : new[i] = old[i]
            /\ new[Len(old) + 1] = sq[k + 1]
        BY <3>1, <3>2, <3>3
      <3>5. \A i \in 1 .. Len(old) : \E j \in 1 .. k : old[i] = sq[j]
        BY <2>1 DEF old
      <3>6. \A i \in 1 .. Len(new) : \E j \in 1 .. k + 1 : new[i] = sq[j]
        <4> TAKE i \in 1 .. Len(new)
        <4>1. CASE i \in 1 .. Len(old)
          BY <3>4, <3>5, <4>1
        <4>2. CASE i = Len(old) + 1
          BY <3>4, <4>2
        <4> QED
          BY <3>4, <4>1, <4>2
      <3>7. ASSUME \A i, j \in 1 .. n : sq[i] = sq[j] => i = j,
                   NEW i \in 1 .. Len(new), NEW j \in 1 .. Len(new), new[i] = new[j]
            PROVE  i = j
        <4>0. \A x, y \in 1 .. Len(old) : old[x] = old[y] => x = y
          BY <2>1, <3>7 DEF old
        <4>1. \A x \in 1 .. Len(old) : old[x] # sq[k + 1]
          <5> TAKE x \in 1 .. Len(old)
          <5>1. PICK y \in 1 .. k : old[x] = sq[y]
            BY <3>5
          <5> QED
            BY <3>7, <5>1
        <4> QED
          BY <3>4, <3>7, <4>0, <4>1
      <3>8. From(k + 1)
        BY <3>6 DEF new
      <3>9. (\A i, j \in 1 .. n : sq[i] = sq[j] => i = j) => Once(k + 1)
        BY <3>7 DEF new
      <3> QED
        BY <3>4, <3>8, <3>9 DEF new
    <2> QED
      BY <2>4, <2>5
  <1> HIDE DEF D
  <1>6. \A k \in Nat : k \in D
    BY <1>4, <1>5, InductionOnNat
  <1>7. n \in Nat /\ n \in D
    BY <1>6
  <1> QED
    BY <1>2, <1>7 DEF D

-----------------------------------------------------------------------------
(***************************************************************************)
(* get_state's report                                                      *)
(***************************************************************************)

\* A track is in the project once, and nothing in it is null.
ProjectInv ==
  /\ tracks \in Seq(Tracks) /\ selected \in Seq(Items)
  /\ \A i, j \in 1 .. Len(tracks) : tracks[i] = tracks[j] => i = j

Counting == {"item", "item_track", "match"}
Listing == {"track", "row", "report", "exception"}
RowsOfTracks == [id : Nat, track : Tracks, selected : BOOLEAN, fx_count : Nat,
                 fx_names : Nat, selected_item_count : Nat]

\* Where get_state is in its two loops
Places ==
  /\ at \in {"idle", "unavailable", "count_tracks", "count_items"} \cup Counting \cup Listing
  /\ nTracks \in Nat /\ nSelected \in Nat /\ s \in Nat /\ t \in Nat
  /\ s <= nSelected
  /\ at \in {"idle", "unavailable", "count_tracks", "count_items"} =>
       s = 0 /\ t = 0 /\ nSelected = 0
  /\ at \in {"item_track", "match"} => s < nSelected
  /\ at = "match" => t <= nTracks
  /\ at \in Listing => s = nSelected /\ t <= nTracks
  /\ at = "row" => t < nTracks /\ pointer \in Tracks
  /\ at = "report" => t = nTracks
TallyTyped == at \in Counting \cup Listing => perTrack \in [0 .. nTracks - 1 -> Nat]
RowsTyped == rows \in Seq(RowsOfTracks) /\ (at \notin Listing => rows = <<>>)
ProgressInv == edits \in Nat /\ Places /\ TallyTyped /\ RowsTyped

\* Each item looked at is counted on the one track it was found on, or on none.
Tally(trackIs) ==
  \A j \in 0 .. nTracks - 1 : perTrack[j] = Cardinality({i \in 1 .. s : trackIs[i] = j})
CountedOnce == at \in Counting \cup Listing => \E trackIs \in [1 .. s -> Int] : Tally(trackIs)

\* The rows are of different tracks and repeat their counts.
RowsOnce ==
  at \in Listing =>
    /\ \A k \in 1 .. Len(rows) : /\ rows[k].id < t
                                 /\ rows[k].selected_item_count = perTrack[rows[k].id]
    /\ \A k, l \in 1 .. Len(rows) : rows[k].id = rows[l].id => k = l

\* While nobody edits, all that get_state holds agrees with the project.
OnTrackSoFar(j) == {k \in 1 .. s : trackOf[selected[k]] = tracks[j + 1]}
TallyAgrees == \A j \in 0 .. nTracks - 1 : perTrack[j] = Cardinality(OnTrackSoFar(j))
RowsAgree == Len(rows) = t /\ \A k \in 1 .. t : rows[k] = ExactRow(k)
Agrees ==
  /\ at \in {"count_items"} \cup Counting \cup Listing => nTracks = Len(tracks)
  /\ at \in Counting \cup Listing => nSelected = Len(selected) /\ TallyAgrees
  /\ at = "item_track" => pointer = selected[s + 1]
  /\ at = "match" => /\ pointer = trackOf[selected[s + 1]]
                     /\ \A j \in 1 .. t : tracks[j] # pointer
  /\ at = "row" => pointer = tracks[t + 1]
  /\ at \in Listing => RowsAgree
QuietlyAgrees == edits = 0 => Agrees

LEMMA ProjectStep == ProjectInv /\ [Next]_vars => ProjectInv'
  <1> SUFFICES ASSUME ProjectInv, [Next]_vars PROVE ProjectInv'
    OBVIOUS
  <1>0. /\ tracks \in Seq(Tracks) /\ selected \in Seq(Items)
        /\ \A i, j \in 1 .. Len(tracks) : tracks[i] = tracks[j] => i = j
    BY DEF ProjectInv
  <1>1. ASSUME NEW tr \in Tracks, NEW i \in 0 .. Cardinality(Tracks), InsertTrack(tr, i)
        PROVE  ProjectInv'
    <2>1. /\ tr \notin Range(tracks) /\ i \in 0 .. Len(tracks)
          /\ tracks' = SubSeq(tracks, 1, i) \o <<tr>> \o SubSeq(tracks, i + 1, Len(tracks))
          /\ selected' = selected
      BY <1>1 DEF InsertTrack
    <2> DEFINE n == Len(tracks)
               a == SubSeq(tracks, 1, i)
               b == SubSeq(tracks, i + 1, n)
    <2>2. n \in Nat /\ i \in Nat /\ i <= n
      BY <1>0, <2>1
    <2>3. a \in Seq(Tracks) /\ Len(a) = i /\ \A k \in 1 .. i : a[k] = tracks[k]
      BY <1>0, <2>2
    <2>4. b \in Seq(Tracks) /\ Len(b) = n - i /\ \A k \in 1 .. n - i : b[k] = tracks[i + k]
      BY <1>0, <2>2
    <2>5. tracks' = a \o <<tr>> \o b
      BY <2>1
    <2> HIDE DEF a, b
    <2> DEFINE c == a \o <<tr>>
    <2>6. /\ c \in Seq(Tracks) /\ Len(c) = i + 1 /\ c[i + 1] = tr
          /\ \A k \in 1 .. i : c[k] = a[k]
      BY <2>2, <2>3
    <2> HIDE DEF c, n
    <2>7. /\ tracks' \in Seq(Tracks) /\ Len(tracks') = n + 1
          /\ \A k \in 1 .. i + 1 : tracks'[k] = c[k]
          /\ \A k \in 1 .. n - i : tracks'[i + 1 + k] = b[k]
      BY <2>2, <2>4, <2>5, <2>6 DEF c
    <2>8. /\ \A k \in 1 .. i : tracks'[k] = tracks[k]
          /\ tracks'[i + 1] = tr
          /\ \A k \in i + 2 .. n + 1 : tracks'[k] = tracks[k - 1]
      <3>1. \A k \in 1 .. i : tracks'[k] = tracks[k]
        BY <2>2, <2>3, <2>6, <2>7
      <3>2. tracks'[i + 1] = tr
        BY <2>2, <2>6, <2>7
      <3>3. ASSUME NEW k \in i + 2 .. n + 1 PROVE tracks'[k] = tracks[k - 1]
        <4> DEFINE m == k - (i + 1)
        <4>1. m \in 1 .. n - i /\ k = i + 1 + m /\ k - 1 = i + m
          BY <2>2
        <4> HIDE DEF m
        <4> QED
          BY <2>4, <2>7, <4>1
      <3> QED
        BY <3>1, <3>2, <3>3
    <2>9. \A k \in 1 .. n : tracks[k] # tr
      BY <1>0, <2>1 DEF Range, n
    <2>10. ASSUME NEW k \in 1 .. n + 1, NEW l \in 1 .. n + 1, tracks'[k] = tracks'[l]
           PROVE  k = l
      <3> DEFINE old(x) == IF x <= i THEN x ELSE x - 1
      <3>1. ASSUME NEW x \in 1 .. n + 1, x # i + 1
            PROVE  old(x) \in 1 .. n /\ tracks'[x] = tracks[old(x)]
        BY <2>2, <2>8, <3>1
      <3>2. CASE k = i + 1
        BY <2>8, <2>9, <2>10, <3>1, <3>2
      <3>3. CASE l = i + 1
        BY <2>8, <2>9, <2>10, <3>1, <3>3
      <3>4. CASE k # i + 1 /\ l # i + 1
        <4>1. old(k) = old(l)
          <5> HIDE DEF old
          <5> QED
            BY <1>0, <2>10, <3>1, <3>4 DEF n
        <4> QED
          BY <2>2, <3>4, <4>1
      <3> QED
        BY <3>2, <3>3, <3>4
    <2> QED
      BY <1>0, <2>1, <2>7, <2>10 DEF ProjectInv
  <1>2. ASSUME NEW tr \in Tracks, RemoveTrack(tr)
        PROVE  ProjectInv'
    <2>1. tracks' = Without(tracks, {tr}) /\ selected' = Without(selected, {i \in Items : trackOf[i] = tr})
      BY <1>2 DEF RemoveTrack
    <2>2. Without(selected, {i \in Items : trackOf[i] = tr}) \in Seq(Items)
      BY <1>0, WithoutKeeps
    <2>3. /\ Without(tracks, {tr}) \in Seq(Tracks)
          /\ \A i, j \in 1 .. Len(Without(tracks, {tr})) :
               Without(tracks, {tr})[i] = Without(tracks, {tr})[j] => i = j
      BY <1>0, WithoutKeeps
    <2> QED
      BY <2>1, <2>2, <2>3 DEF ProjectInv
  <1>3. ASSUME NEW i \in Items, NEW tr \in Tracks, AddItem(i, tr)
        PROVE  ProjectInv'
    <2>1. tracks' = tracks /\ selected' = Append(selected, i)
      BY <1>3 DEF AddItem
    <2>2. selected' \in Seq(Items)
      BY <1>0, <2>1
    <2> QED
      BY <1>0, <2>1, <2>2 DEF ProjectInv
  <1>4. ASSUME NEW i \in Items, Deselect(i)
        PROVE  ProjectInv'
    <2>1. tracks' = tracks /\ selected' = Without(selected, {i})
      BY <1>4 DEF Deselect
    <2>2. selected' \in Seq(Items)
      BY <1>0, <2>1, WithoutKeeps
    <2> QED
      BY <1>0, <2>1, <2>2 DEF ProjectInv
  <1>5. CASE UNCHANGED <<tracks, selected>>
    BY <1>5 DEF ProjectInv
  <1>6. CASE GetState \/ (\E f \in Slots : SetSlot(f)) \/ ResetSlots \/ UNCHANGED vars
    <2>1. UNCHANGED <<tracks, selected>>
      BY <1>6 DEF GetState, SetSlot, ResetSlots, CopyPointers, CountTracks, CountSelectedItems,
           GetItem, GetItemTrack, Match, NoMatch, ItemsCounted, GetTrack, AddRow, Report, Return,
           World, project, vars
    <2> QED
      BY <1>5, <2>1
  <1> QED
    BY <1>1, <1>2, <1>3, <1>4, <1>6 DEF Next, Environment


\* An edit leaves get_state alone; one in the middle of it is counted.
LEMMA EnvironmentStep ==
  ASSUME Environment
  PROVE  /\ UNCHANGED <<at, summary, nTracks, nSelected, s, t, pointer, perTrack, rows>>
         /\ \/ UNCHANGED <<tracks, selected, trackOf, edits>>
            \/ at = "idle" /\ edits' = 0
            \/ edits' = edits + 1
  BY DEF Environment, SetSlot, ResetSlots, InsertTrack, RemoveTrack, AddItem, Deselect, Edit,
         locals, project

\* A row is a row of a track of the project, however the counts came about.
LEMMA RowType ==
  ASSUME ProgressInv, at = "row"
  PROVE  Row \in RowsOfTracks
  <1>1. t \in 0 .. nTracks - 1 /\ t \in Nat /\ pointer \in Tracks
    BY DEF ProgressInv, Places
  <1>2. perTrack[t] \in Nat
    BY <1>1 DEF ProgressInv, TallyTyped, Counting, Listing
  <1>3. FxOf[pointer] \in Nat /\ ListedFx(pointer) \in Nat
    BY <1>1, ReaderConstants DEF ListedFx
  <1>4. (perTrack[t] > 0) \in BOOLEAN
    OBVIOUS
  <1> QED
    BY <1>1, <1>2, <1>3, <1>4 DEF Row, RowsOfTracks

LEMMA PlacesStep == ProjectInv /\ Places /\ [Next]_vars => Places'
  <1> SUFFICES ASSUME ProjectInv, Places, [Next]_vars PROVE Places'
    OBVIOUS
  <1>0. Len(tracks) \in Nat /\ Len(selected) \in Nat
    BY DEF ProjectInv
  <1> USE DEF Places, Counting, Listing
  <1>1. CASE \E brief \in BOOLEAN : CopyPointers(brief)
    BY <1>1 DEF CopyPointers
  <1>2. CASE CountTracks
    BY <1>0, <1>2 DEF CountTracks
  <1>3. CASE CountSelectedItems
    <2>1. nSelected' \in Nat /\ s = 0 /\ UNCHANGED <<nTracks, s, t>> /\ at' = "item"
      BY <1>0, <1>3 DEF CountSelectedItems
    <2> QED
      BY <2>1
  <1>4. CASE GetItem
    <2>1. at = "item" /\ s < nSelected /\ UNCHANGED <<nTracks, nSelected, t>>
      BY <1>4 DEF GetItem
    <2>2. (s' = s + 1 /\ at' = "item") \/ (s' = s /\ at' = "item_track")
      BY <1>4 DEF GetItem, NextItem
    <2> QED
      BY <2>1, <2>2
  <1>5. CASE GetItemTrack
    <2>1. at = "item_track" /\ s < nSelected /\ UNCHANGED <<nTracks, nSelected>> /\ t' = 0
      BY <1>5 DEF GetItemTrack
    <2>2. (s' = s + 1 /\ at' = "item") \/ (s' = s /\ at' = "match")
      BY <1>5 DEF GetItemTrack, NextItem
    <2> QED
      BY <2>1, <2>2
  <1>6. CASE Match
    <2>1. at = "match" /\ s < nSelected /\ t < nTracks /\ UNCHANGED <<nTracks, nSelected>>
      BY <1>6 DEF Match
    <2>2. \/ s' = s + 1 /\ at' = "item" /\ t' = t
          \/ s' = s /\ at' = "match" /\ t' = t + 1
      BY <1>6 DEF Match, NextItem
    <2> QED
      BY <2>1, <2>2
  <1>7. CASE NoMatch
    BY <1>7 DEF NoMatch, NextItem
  <1>8. CASE ItemsCounted
    BY <1>8 DEF ItemsCounted
  <1>9. CASE GetTrack
    <2>1. TrackAt(t) # Null => TrackAt(t) \in Tracks
      BY DEF TrackAt, ProjectInv
    <2>2. at = "track" /\ t < nTracks /\ s = nSelected /\ UNCHANGED <<nTracks, nSelected, s>>
      BY <1>9 DEF GetTrack
    <2>3. \/ t' = t + 1 /\ at' = "track"
          \/ t' = t /\ at' = "row" /\ pointer' \in Tracks
      BY <1>9, <2>1, <2>2 DEF GetTrack
    <2> QED
      BY <2>2, <2>3
  <1>10. CASE AddRow
    BY <1>10 DEF AddRow
  <1>11. CASE Report
    BY <1>11 DEF Report, locals
  <1>12. CASE Return
    <2>1. at' = "idle" /\ nTracks' = 0 /\ nSelected' = 0 /\ s' = 0 /\ t' = 0
      BY <1>12 DEF Return
    <2> QED
      BY <2>1
  <1>13. CASE Environment
    BY <1>13, EnvironmentStep
  <1>14. CASE UNCHANGED vars
    BY <1>14 DEF vars, locals
  <1> QED
    BY <1>1, <1>2, <1>3, <1>4, <1>5, <1>6, <1>7, <1>8, <1>9, <1>10, <1>11, <1>12, <1>13, <1>14
       DEF Next, GetState

LEMMA TallyTypedStep == Places /\ TallyTyped /\ [Next]_vars => TallyTyped'
  <1> SUFFICES ASSUME Places, TallyTyped, [Next]_vars, (at \in Counting \cup Listing)'
               PROVE  (perTrack \in [0 .. nTracks - 1 -> Nat])'
    BY DEF TallyTyped
  <1>1. CASE CountSelectedItems
    BY <1>1 DEF CountSelectedItems
  <1>2. CASE Match
    <2>1. /\ perTrack \in [0 .. nTracks - 1 -> Nat] /\ t \in 0 .. nTracks - 1
          /\ nTracks' = nTracks
      BY <1>2 DEF Match, Places, TallyTyped, Counting
    <2>2. perTrack' = perTrack \/ perTrack' = [perTrack EXCEPT ![t] = @ + 1]
      BY <1>2 DEF Match
    <2> QED
      BY <2>1, <2>2
  <1>3. CASE \/ GetItem \/ GetItemTrack \/ NoMatch \/ ItemsCounted \/ GetTrack
             \/ AddRow \/ Report
    <2>1. at \in Counting \cup Listing /\ UNCHANGED <<perTrack, nTracks>>
      BY <1>3 DEF GetItem, GetItemTrack, NoMatch, ItemsCounted, GetTrack, AddRow, Report, locals,
                  Counting, Listing
    <2> QED
      BY <2>1 DEF TallyTyped
  <1>4. CASE (\E brief \in BOOLEAN : CopyPointers(brief)) \/ CountTracks \/ Return
    <2>1. at' \notin Counting \cup Listing
      BY <1>4 DEF CopyPointers, CountTracks, Return, Counting, Listing
    <2> QED
      BY <2>1 DEF Counting, Listing
  <1>5. CASE Environment \/ UNCHANGED vars
    <2>1. UNCHANGED <<at, perTrack, nTracks>>
      BY <1>5, EnvironmentStep DEF vars, locals
    <2> QED
      BY <2>1 DEF TallyTyped
  <1> QED
    BY <1>1, <1>2, <1>3, <1>4, <1>5 DEF Next, GetState

LEMMA RowsTypedStep == ProgressInv /\ [Next]_vars => RowsTyped'
  <1> SUFFICES ASSUME ProgressInv, [Next]_vars PROVE RowsTyped'
    OBVIOUS
  <1>0. rows \in Seq(RowsOfTracks) /\ (at \notin Listing => rows = <<>>)
    BY DEF ProgressInv, RowsTyped
  <1>1. CASE AddRow
    <2>1. rows' = Append(rows, Row) /\ Row \in RowsOfTracks /\ at' = "track"
      BY <1>1, RowType DEF AddRow
    <2>2. rows' \in Seq(RowsOfTracks)
      BY <1>0, <2>1
    <2> QED
      BY <2>1, <2>2 DEF RowsTyped, Listing
  <1>2. CASE Return
    BY <1>2 DEF Return, RowsTyped
  <1>3. CASE ~ (AddRow \/ Return)
    <2>1. rows' = rows /\ (at \in Listing => at' \in Listing)
      BY <1>3, EnvironmentStep DEF Next, GetState, CopyPointers, CountTracks, CountSelectedItems,
           GetItem, GetItemTrack, Match, NoMatch, ItemsCounted, GetTrack, Report, NextItem,
           locals, vars, Listing
    <2> QED
      BY <1>0, <2>1 DEF RowsTyped
  <1> QED
    BY <1>1, <1>2, <1>3

LEMMA ProgressStep == ProjectInv /\ ProgressInv /\ [Next]_vars => ProgressInv'
  <1> SUFFICES ASSUME ProjectInv, ProgressInv, [Next]_vars PROVE ProgressInv'
    OBVIOUS
  <1>1. edits' \in Nat
    <2>1. CASE GetState \/ UNCHANGED vars
      <3>1. edits' = edits \/ edits' = 0
        BY <2>1 DEF GetState, CopyPointers, CountTracks, CountSelectedItems, GetItem, GetItemTrack,
             Match, NoMatch, ItemsCounted, GetTrack, AddRow, Report, Return, World, vars
      <3> QED
        BY <3>1 DEF ProgressInv
    <2>2. CASE Environment
      <3>1. edits' = edits \/ edits' = 0 \/ edits' = edits + 1
        BY <2>2, EnvironmentStep
      <3> QED
        BY <3>1 DEF ProgressInv
    <2> QED
      BY <2>1, <2>2 DEF Next
  <1> QED
    BY <1>1, PlacesStep, TallyTypedStep, RowsTypedStep DEF ProgressInv

\* Cardinality of what lies among the first m + 1 numbers
LEMMA OneMore ==
  ASSUME NEW m \in Nat, NEW T
  PROVE  /\ Cardinality({i \in 1 .. m : i \in T}) \in Nat
         /\ Cardinality({i \in 1 .. m + 1 : i \in T}) =
              IF m + 1 \in T THEN Cardinality({i \in 1 .. m : i \in T}) + 1
                             ELSE Cardinality({i \in 1 .. m : i \in T})
  <1> DEFINE A == {i \in 1 .. m : i \in T}
             B == {i \in 1 .. m + 1 : i \in T}
  <1>1. IsFiniteSet(A)
    <2>1. IsFiniteSet(1 .. m) /\ A \in SUBSET (1 .. m)
      BY FS_Interval
    <2> HIDE DEF A
    <2> QED
      BY <2>1, FS_Subset
  <1>2. m + 1 \notin A
    OBVIOUS
  <1>3. B = IF m + 1 \in T THEN A \cup {m + 1} ELSE A
    OBVIOUS
  <1> HIDE DEF A, B
  <1>4. Cardinality(A) \in Nat
    BY <1>1, FS_CardinalityType
  <1>5. Cardinality(B) = IF m + 1 \in T THEN Cardinality(A) + 1 ELSE Cardinality(A)
    BY <1>1, <1>2, <1>3, FS_AddElement
  <1> QED
    BY <1>4, <1>5 DEF A, B


\* A selected item looked at, and counted on track v if there is one of that index
LEMMA OneMoreLooked ==
  ASSUME Places, TallyTyped, CountedOnce, at \in Counting,
         NEW v \in Int, s' = s + 1, nTracks' = nTracks,
         perTrack' = [j \in 0 .. nTracks - 1 |-> IF j = v THEN perTrack[j] + 1 ELSE perTrack[j]]
  PROVE  CountedOnce'
  <1>1. PICK trackIs \in [1 .. s -> Int] : Tally(trackIs)
    BY DEF CountedOnce
  <1>2. s \in Nat
    BY DEF Places
  <1> DEFINE now == [i \in 1 .. s + 1 |-> IF i = s + 1 THEN v ELSE trackIs[i]]
  <1>3. now \in [1 .. s + 1 -> Int]
    BY <1>2
  <1>4. now[s + 1] = v /\ \A i \in 1 .. s : now[i] = trackIs[i]
    BY <1>2
  <1> HIDE DEF now
  <1>5. ASSUME NEW j \in 0 .. nTracks - 1
        PROVE  perTrack'[j] = Cardinality({i \in 1 .. s + 1 : now[i] = j})
    <2> DEFINE T == {i \in 1 .. s + 1 : now[i] = j}
    <2>1. perTrack[j] = Cardinality({i \in 1 .. s : trackIs[i] = j})
      BY <1>1 DEF Tally
    <2>2. {i \in 1 .. s : i \in T} = {i \in 1 .. s : trackIs[i] = j}
      BY <1>2, <1>4
    <2>3. {i \in 1 .. s + 1 : i \in T} = T
      OBVIOUS
    <2>4. s + 1 \in T <=> j = v
      BY <1>2, <1>4
    <2>5. perTrack'[j] = IF j = v THEN perTrack[j] + 1 ELSE perTrack[j]
      OBVIOUS
    <2> HIDE DEF T
    <2>6. Cardinality(T) = IF s + 1 \in T THEN Cardinality({i \in 1 .. s : i \in T}) + 1
                                          ELSE Cardinality({i \in 1 .. s : i \in T})
      BY <1>2, <2>3, OneMore
    <2>7. Cardinality(T) = perTrack'[j]
      BY <2>1, <2>2, <2>4, <2>5, <2>6
    <2> QED
      BY <2>7 DEF T
  <1>6. \E own \in [1 .. s' -> Int] :
          \A j \in 0 .. nTracks' - 1 : perTrack'[j] = Cardinality({i \in 1 .. s' : own[i] = j})
    BY <1>3, <1>5
  <1> QED
    BY <1>6 DEF CountedOnce, Tally

LEMMA CountedOnceStep == Places /\ TallyTyped /\ CountedOnce /\ [Next]_vars => CountedOnce'
  <1> SUFFICES ASSUME Places, TallyTyped, CountedOnce, [Next]_vars,
                      (at \in Counting \cup Listing)'
               PROVE  CountedOnce'
    BY DEF CountedOnce
  <1>1. CASE CountSelectedItems
    <2>1. s = 0 /\ s' = 0 /\ nTracks' = nTracks /\ perTrack' = [i \in 0 .. nTracks - 1 |-> 0]
      BY <1>1 DEF CountSelectedItems, Places
    <2> DEFINE none == [i \in 1 .. 0 |-> -1]
    <2>2. none \in [1 .. s' -> Int]
      BY <2>1
    <2>3. ASSUME NEW j \in 0 .. nTracks' - 1
          PROVE  perTrack'[j] = Cardinality({i \in 1 .. s' : none[i] = j})
      <3>1. perTrack'[j] = 0
        BY <2>1, <2>3
      <3>2. {i \in 1 .. s' : none[i] = j} = {}
        BY <2>1
      <3> QED
        BY <3>1, <3>2, FS_EmptySet
    <2> HIDE DEF none
    <2>4. Tally(none)'
      BY <2>3 DEF Tally
    <2> QED
      BY <2>2, <2>4 DEF CountedOnce
  <1>2. ASSUME at \in Counting, NextItem, UNCHANGED <<nTracks, perTrack>>
        PROVE  CountedOnce'
    <2>1. perTrack \in [0 .. nTracks - 1 -> Nat] /\ nTracks \in Nat
      BY <1>2 DEF TallyTyped, Places
    <2>2. perTrack' = [j \in 0 .. nTracks - 1 |-> IF j = -1 THEN perTrack[j] + 1 ELSE perTrack[j]]
      BY <1>2, <2>1
    <2> QED
      BY <1>2, <2>2, OneMoreLooked DEF NextItem
  <1>3. ASSUME UNCHANGED <<s, nTracks, perTrack>>, at \in Counting \cup Listing
        PROVE  CountedOnce'
    BY <1>3 DEF CountedOnce, Tally
  <1>4. CASE GetItem
    BY <1>2, <1>3, <1>4 DEF GetItem, Counting
  <1>5. CASE GetItemTrack
    BY <1>2, <1>3, <1>5 DEF GetItemTrack, Counting
  <1>6. CASE Match
    <2>1. at \in Counting /\ nTracks' = nTracks /\ t \in Int
      BY <1>6 DEF Match, Counting, Places
    <2>2. CASE NextItem /\ perTrack' = [perTrack EXCEPT ![t] = @ + 1]
      <3>1. perTrack \in [0 .. nTracks - 1 -> Nat]
        BY <2>1 DEF TallyTyped
      <3>2. perTrack' = [j \in 0 .. nTracks - 1 |-> IF j = t THEN perTrack[j] + 1 ELSE perTrack[j]]
        BY <2>2, <3>1
      <3> QED
        BY <2>1, <2>2, <3>2, OneMoreLooked DEF NextItem
    <2> QED
      BY <1>3, <1>6, <2>1, <2>2 DEF Match
  <1>7. CASE NoMatch
    BY <1>2, <1>7 DEF NoMatch, Counting
  <1>8. CASE ItemsCounted \/ GetTrack \/ AddRow \/ Report
    <2>1. UNCHANGED <<s, nTracks, perTrack>> /\ at \in Counting \cup Listing
      BY <1>8 DEF ItemsCounted, GetTrack, AddRow, Report, locals, Counting, Listing
    <2> QED
      BY <1>3, <2>1
  <1>9. CASE Environment \/ UNCHANGED vars
    <2>1. UNCHANGED <<at, s, nTracks, perTrack>>
      BY <1>9, EnvironmentStep DEF vars, locals
    <2> QED
      BY <1>3, <2>1
  <1>10. CASE (\E brief \in BOOLEAN : CopyPointers(brief)) \/ CountTracks \/ Return
    <2>1. at' \notin Counting \cup Listing
      BY <1>10 DEF CopyPointers, CountTracks, Return, Counting, Listing
    <2> QED
      BY <2>1 DEF Counting, Listing
  <1> QED
    BY <1>1, <1>4, <1>5, <1>6, <1>7, <1>8, <1>9, <1>10 DEF Next, GetState

LEMMA RowIds ==
  ASSUME rows \in Seq(RowsOfTracks)
  PROVE  \A k \in 1 .. Len(rows) : rows[k].id \in Nat
  <1>1. \A r \in RowsOfTracks : r.id \in Nat
    BY DEF RowsOfTracks
  <1>2. \A k \in 1 .. Len(rows) : rows[k] \in RowsOfTracks
    OBVIOUS
  <1> QED
    BY <1>1, <1>2

LEMMA RowsOnceStep ==
  ProjectInv /\ ProgressInv /\ RowsOnce /\ [Next]_vars => RowsOnce'
  <1> SUFFICES ASSUME ProjectInv, ProgressInv, RowsOnce, [Next]_vars, (at \in Listing)'
               PROVE  RowsOnce'
    BY DEF RowsOnce
  <1>1. CASE ItemsCounted
    <2>1. rows' = <<>>
      BY <1>1 DEF ItemsCounted, ProgressInv, RowsTyped, Listing
    <2>2. 1 .. Len(rows') = {}
      BY <2>1
    <2> QED
      BY <2>2 DEF RowsOnce
  <1>2. CASE AddRow
    <2>1. /\ rows' = Append(rows, Row) /\ at = "row" /\ t' = t + 1 /\ perTrack' = perTrack
          /\ Row \in RowsOfTracks
      BY <1>2, RowType DEF AddRow
    <2>2. /\ \A k \in 1 .. Len(rows) : /\ rows[k].id < t
                                       /\ rows[k].selected_item_count = perTrack[rows[k].id]
          /\ \A k, l \in 1 .. Len(rows) : rows[k].id = rows[l].id => k = l
      BY <2>1 DEF RowsOnce, Listing
    <2>3. rows \in Seq(RowsOfTracks) /\ t \in Nat
      BY DEF ProgressInv, RowsTyped, Places
    <2>4. Row.id = t /\ Row.selected_item_count = perTrack[t]
      BY DEF Row
    <2> DEFINE n == Len(rows)
    <2>5. /\ n \in Nat /\ Len(rows') = n + 1 /\ rows'[n + 1] = Row
          /\ \A k \in 1 .. n : rows'[k] = rows[k]
      BY <2>1, <2>3
    <2>6. \A k \in 1 .. n : rows[k].id \in Nat
      BY <2>3, RowIds
    <2> HIDE DEF n
    <2>7. ASSUME NEW k \in 1 .. n + 1
          PROVE  /\ rows'[k].id < t + 1
                 /\ rows'[k].selected_item_count = perTrack[rows'[k].id]
      <3>1. CASE k = n + 1
        BY <2>3, <2>4, <2>5, <3>1
      <3>2. CASE k \in 1 .. n
        <4>1. rows'[k] = rows[k] /\ rows[k].id < t /\ rows[k].id \in Nat
              /\ rows[k].selected_item_count = perTrack[rows[k].id]
          BY <2>2, <2>5, <2>6, <3>2 DEF n
        <4> QED
          BY <2>3, <4>1
      <3> QED
        BY <2>5, <3>1, <3>2
    <2>8. ASSUME NEW k \in 1 .. n + 1, NEW l \in 1 .. n + 1, rows'[k].id = rows'[l].id
          PROVE  k = l
      <3>1. \A m \in 1 .. n : rows'[m].id < t /\ rows'[m].id \in Nat
        BY <2>2, <2>5, <2>6 DEF n
      <3>2. rows'[n + 1].id = t
        BY <2>4, <2>5
      <3>3. CASE k \in 1 .. n /\ l \in 1 .. n
        BY <2>2, <2>5, <2>8, <3>3 DEF n
      <3>4. CASE k = n + 1 \/ l = n + 1
        BY <2>3, <2>5, <2>8, <3>1, <3>2, <3>4
      <3> QED
        BY <2>5, <3>3, <3>4
    <2> QED
      BY <2>1, <2>5, <2>7, <2>8 DEF RowsOnce
  <1>3. CASE GetTrack
    <2>1. /\ at = "track" /\ UNCHANGED <<rows, perTrack>> /\ t \in Nat /\ (t' = t \/ t' = t + 1)
          /\ rows \in Seq(RowsOfTracks)
      BY <1>3 DEF GetTrack, ProgressInv, Places, RowsTyped
    <2>2. \A k \in 1 .. Len(rows) : rows[k].id \in Nat
      BY <2>1, RowIds
    <2>3. /\ \A k \in 1 .. Len(rows) : /\ rows[k].id < t
                                       /\ rows[k].selected_item_count = perTrack[rows[k].id]
          /\ \A k, l \in 1 .. Len(rows) : rows[k].id = rows[l].id => k = l
      BY <2>1 DEF RowsOnce, Listing
    <2>4. \A k \in 1 .. Len(rows) : rows[k].id < t'
      BY <2>1, <2>2, <2>3
    <2> QED
      BY <2>1, <2>3, <2>4 DEF RowsOnce
  <1>4. CASE Report \/ Environment \/ UNCHANGED vars
    <2>1. UNCHANGED <<rows, perTrack, t>> /\ at \in Listing
      BY <1>4, EnvironmentStep DEF Report, vars, locals, Listing
    <2> QED
      BY <2>1 DEF RowsOnce
  <1>5. CASE \/ \E brief \in BOOLEAN : CopyPointers(brief)
             \/ CountTracks \/ CountSelectedItems \/ GetItem \/ GetItemTrack \/ Match
             \/ NoMatch \/ Return
    <2>1. at' \notin Listing
      BY <1>5 DEF CopyPointers, CountTracks, CountSelectedItems, GetItem, GetItemTrack, Match,
                  NoMatch, Return, NextItem, Listing
    <2> QED
      BY <2>1 DEF Listing
  <1> QED
    BY <1>1, <1>2, <1>3, <1>4, <1>5 DEF Next, GetState


\* The items' loop, while nobody edits: one more selected item looked at
LEMMA OneMoreAgrees ==
  ASSUME s \in Nat, nTracks \in Nat,
         TallyAgrees,
         s' = s + 1, UNCHANGED <<tracks, selected, trackOf>>, nTracks' = nTracks,
         \A j \in 0 .. nTracks - 1 :
           perTrack'[j] = IF trackOf[selected[s + 1]] = tracks[j + 1]
                            THEN perTrack[j] + 1 ELSE perTrack[j]
  PROVE  TallyAgrees'
  <1> SUFFICES ASSUME NEW j \in 0 .. nTracks - 1
               PROVE  perTrack'[j] = Cardinality(OnTrackSoFar(j)')
    BY DEF TallyAgrees, OnTrackSoFar
  <1> DEFINE T == {k \in 1 .. s + 1 : trackOf[selected[k]] = tracks[j + 1]}
  <1>1. OnTrackSoFar(j)' = T
    BY DEF OnTrackSoFar
  <1>2. {k \in 1 .. s : k \in T} = OnTrackSoFar(j)
    BY DEF OnTrackSoFar
  <1>3. {k \in 1 .. s + 1 : k \in T} = T
    OBVIOUS
  <1>4. s + 1 \in T <=> trackOf[selected[s + 1]] = tracks[j + 1]
    OBVIOUS
  <1> HIDE DEF T
  <1>5. Cardinality(T) = IF s + 1 \in T THEN Cardinality(OnTrackSoFar(j)) + 1
                                        ELSE Cardinality(OnTrackSoFar(j))
    BY <1>2, <1>3, OneMore
  <1>6. perTrack[j] = Cardinality(OnTrackSoFar(j))
    BY DEF TallyAgrees
  <1> QED
    BY <1>1, <1>4, <1>5, <1>6

\* The tracks' loop: the row added is the one the project calls for.
LEMMA RowIsExact ==
  ASSUME ProgressInv, Agrees, at = "row"
  PROVE  Row = ExactRow(t + 1)
  <1>1. t \in 0 .. nTracks - 1 /\ t \in Nat /\ s = nSelected
    BY DEF ProgressInv, Places, Listing
  <1>2. /\ pointer = tracks[t + 1] /\ nSelected = Len(selected)
        /\ perTrack[t] = Cardinality(OnTrackSoFar(t))
    BY <1>1 DEF Agrees, TallyAgrees, Listing
  <1>3. OnTrackSoFar(t) = OnTrack(tracks[t + 1])
    BY <1>1, <1>2 DEF OnTrackSoFar, OnTrack
  <1>4. (t + 1) - 1 = t
    BY <1>1
  <1> QED
    BY <1>2, <1>3, <1>4 DEF Row, ExactRow

LEMMA AgreesFrame ==
  ASSUME UNCHANGED <<tracks, selected, trackOf, summary>>
  PROVE  \A k : ExactRow(k)' = ExactRow(k)
  BY DEF ExactRow, OnTrack

LEMMA AgreesStep ==
  ASSUME ProjectInv, ProgressInv, Agrees, GetState, edits' = edits
  PROVE  Agrees'
  <1>0. /\ tracks \in Seq(Tracks) /\ selected \in Seq(Items)
        /\ \A i, j \in 1 .. Len(tracks) : tracks[i] = tracks[j] => i = j
        /\ nTracks \in Nat /\ s \in Nat /\ t \in Nat
        /\ Null \notin Tracks \cup Items
    BY ReaderConstants DEF ProjectInv, ProgressInv, Places
  <1>1. CASE (\E brief \in BOOLEAN : CopyPointers(brief)) \/ Return
    <2>1. at' \notin {"count_items"} \cup Counting \cup Listing
      BY <1>1 DEF CopyPointers, Return, Counting, Listing
    <2> QED
      BY <2>1 DEF Agrees, Counting, Listing
  <1>2. CASE CountTracks
    <2>1. nTracks' = Len(tracks) /\ tracks' = tracks /\ at' = "count_items"
      BY <1>2 DEF CountTracks, World, project
    <2> QED
      BY <2>1 DEF Agrees, Counting, Listing
  <1>3. CASE CountSelectedItems
    <2>1. /\ UNCHANGED <<nTracks, tracks, selected>> /\ nSelected' = Len(selected) /\ s' = 0
          /\ at' = "item" /\ perTrack' = [i \in 0 .. nTracks - 1 |-> 0]
          /\ nTracks = Len(tracks)
      BY <1>3 DEF CountSelectedItems, World, project, ProgressInv, Places, Agrees
    <2>2. ASSUME NEW j \in 0 .. nTracks - 1
          PROVE  perTrack'[j] = Cardinality(OnTrackSoFar(j)')
      <3>1. OnTrackSoFar(j)' = {}
        BY <2>1 DEF OnTrackSoFar
      <3> QED
        BY <2>1, <3>1, FS_EmptySet
    <2>3. TallyAgrees'
      BY <2>1, <2>2 DEF TallyAgrees, OnTrackSoFar
    <2> QED
      BY <2>1, <2>3 DEF Agrees, Listing
  <1>4. CASE GetItem
    <2>1. /\ at = "item" /\ s < nSelected /\ nSelected = Len(selected) /\ nTracks = Len(tracks)
          /\ TallyAgrees
      BY <1>4 DEF GetItem, Agrees, Counting
    <2>2. SelectedAt(s) = selected[s + 1] /\ selected[s + 1] # Null
      BY <1>0, <2>1 DEF SelectedAt
    <2>3. /\ pointer' = selected[s + 1] /\ at' = "item_track"
          /\ UNCHANGED <<s, nTracks, nSelected, perTrack, tracks, selected, trackOf>>
      BY <1>4, <2>2 DEF GetItem, World, project
    <2>4. TallyAgrees'
      BY <2>1, <2>3 DEF TallyAgrees, OnTrackSoFar
    <2> QED
      BY <2>1, <2>3, <2>4 DEF Agrees, Listing
  <1>5. ASSUME at \in Counting, NextItem,
               UNCHANGED <<nTracks, nSelected, tracks, selected, trackOf>>,
               \A j \in 0 .. nTracks - 1 :
                 perTrack'[j] = IF trackOf[selected[s + 1]] = tracks[j + 1]
                                  THEN perTrack[j] + 1 ELSE perTrack[j]
        PROVE  Agrees'
    <2>1. nSelected = Len(selected) /\ nTracks = Len(tracks) /\ TallyAgrees
      BY <1>5 DEF Agrees
    <2>2. TallyAgrees' /\ at' = "item"
      BY <1>0, <1>5, <2>1, OneMoreAgrees DEF NextItem
    <2> QED
      BY <1>5, <2>1, <2>2 DEF Agrees, Listing
  <1>6. CASE GetItemTrack
    <2>1. /\ at = "item_track" /\ nSelected = Len(selected) /\ nTracks = Len(tracks)
          /\ TallyAgrees /\ pointer = selected[s + 1] /\ pointer' = trackOf[selected[s + 1]]
          /\ UNCHANGED <<nTracks, nSelected, perTrack, tracks, selected, trackOf>> /\ t' = 0
      BY <1>6 DEF GetItemTrack, Agrees, Counting, World, project
    <2>2. CASE trackOf[pointer] = Null /\ NextItem
      <3>1. ASSUME NEW j \in 0 .. nTracks - 1
            PROVE  trackOf[selected[s + 1]] # tracks[j + 1]
        BY <1>0, <2>1, <2>2
      <3> QED
        BY <1>5, <2>1, <2>2, <3>1 DEF Counting
    <2>3. CASE trackOf[pointer] # Null /\ at' = "match" /\ s' = s
      <3>1. TallyAgrees'
        BY <2>1, <2>3 DEF TallyAgrees, OnTrackSoFar
      <3> QED
        BY <2>1, <2>3, <3>1 DEF Agrees, Listing
    <2> QED
      BY <1>6, <2>2, <2>3 DEF GetItemTrack
  <1>7. CASE Match
    <2>1. /\ at = "match" /\ nSelected = Len(selected) /\ nTracks = Len(tracks)
          /\ TallyAgrees /\ pointer = trackOf[selected[s + 1]] /\ t < nTracks
          /\ \A j \in 1 .. t : tracks[j] # pointer
          /\ UNCHANGED <<nTracks, nSelected, pointer, tracks, selected, trackOf>>
      BY <1>7 DEF Match, Agrees, Counting, World, project
    <2>2. TrackAt(t) = tracks[t + 1]
      BY <1>0, <2>1 DEF TrackAt
    <2>3. CASE /\ tracks[t + 1] = pointer /\ NextItem
               /\ perTrack' = [perTrack EXCEPT ![t] = @ + 1]
      <3>1. perTrack \in [0 .. nTracks - 1 -> Nat]
        BY <2>1 DEF ProgressInv, TallyTyped, Counting
      <3>2. ASSUME NEW j \in 0 .. nTracks - 1
            PROVE  perTrack'[j] = IF trackOf[selected[s + 1]] = tracks[j + 1]
                                    THEN perTrack[j] + 1 ELSE perTrack[j]
        <4>1. tracks[j + 1] = pointer <=> j = t
          BY <1>0, <2>1, <2>3
        <4> QED
          BY <2>1, <2>3, <3>1, <4>1
      <3> QED
        BY <1>5, <2>1, <2>3, <3>2 DEF Counting
    <2>4. CASE tracks[t + 1] # pointer /\ t' = t + 1 /\ UNCHANGED <<perTrack, s, at>>
      <3>1. TallyAgrees'
        BY <2>1, <2>4 DEF TallyAgrees, OnTrackSoFar
      <3>2. \A j \in 1 .. t' : tracks[j] # pointer
        BY <1>0, <2>1, <2>4
      <3> QED
        BY <2>1, <2>4, <3>1, <3>2 DEF Agrees, Listing
    <2> QED
      BY <1>7, <2>2, <2>3, <2>4 DEF Match
  <1>8. CASE NoMatch
    <2>1. /\ at = "match" /\ nTracks = Len(tracks) /\ t = nTracks /\ NextItem
          /\ pointer = trackOf[selected[s + 1]] /\ \A j \in 1 .. t : tracks[j] # pointer
          /\ UNCHANGED <<nTracks, nSelected, perTrack, tracks, selected, trackOf>>
      BY <1>8 DEF NoMatch, Agrees, Counting, World, project
    <2>2. ASSUME NEW j \in 0 .. nTracks - 1
          PROVE  trackOf[selected[s + 1]] # tracks[j + 1]
      BY <1>0, <2>1
    <2> QED
      BY <1>5, <2>1, <2>2 DEF Counting
  <1>9. ASSUME at \in Counting \cup Listing, at' \in Listing,
               UNCHANGED <<nTracks, nSelected, s, perTrack, tracks, selected, trackOf, summary>>,
               at' = "row" => pointer' = tracks'[t' + 1],
               RowsAgree'
        PROVE  Agrees'
    <2>1. nSelected = Len(selected) /\ nTracks = Len(tracks) /\ TallyAgrees
      BY <1>9 DEF Agrees
    <2>2. TallyAgrees'
      BY <1>9, <2>1 DEF TallyAgrees, OnTrackSoFar
    <2> QED
      BY <1>9, <2>1, <2>2 DEF Agrees, Listing
  <1>10. CASE ItemsCounted
    <2>1. /\ at = "item" /\ at' = "track" /\ rows' = <<>> /\ t' = 0
          /\ UNCHANGED <<nTracks, nSelected, s, perTrack, tracks, selected, trackOf, summary>>
      BY <1>10 DEF ItemsCounted, World, project, ProgressInv, RowsTyped, Listing
    <2>2. RowsAgree'
      BY <2>1 DEF RowsAgree
    <2> QED
      BY <1>9, <2>1, <2>2 DEF Counting, Listing
  <1>11. CASE GetTrack
    <2>1. /\ at = "track" /\ t < nTracks /\ nTracks = Len(tracks) /\ RowsAgree
          /\ UNCHANGED <<nTracks, nSelected, s, perTrack, rows, tracks, selected, trackOf, summary>>
      BY <1>11 DEF GetTrack, Agrees, Listing, World, project
    <2>2. TrackAt(t) = tracks[t + 1] /\ tracks[t + 1] # Null
      BY <1>0, <2>1 DEF TrackAt
    <2>3. pointer' = tracks[t + 1] /\ at' = "row" /\ t' = t
      BY <1>11, <2>2 DEF GetTrack
    <2>4. RowsAgree'
      BY <2>1, <2>3, AgreesFrame DEF RowsAgree
    <2> QED
      BY <1>9, <2>1, <2>3, <2>4 DEF Listing
  <1>12. CASE AddRow
    <2>1. /\ at = "row" /\ at' = "track" /\ t' = t + 1 /\ rows' = Append(rows, Row) /\ RowsAgree
          /\ UNCHANGED <<nTracks, nSelected, s, perTrack, tracks, selected, trackOf, summary>>
      BY <1>12 DEF AddRow, Agrees, Listing, World, project
    <2>2. Row = ExactRow(t + 1) /\ Row \in RowsOfTracks /\ rows \in Seq(RowsOfTracks)
      BY <2>1, RowIsExact, RowType DEF ProgressInv, RowsTyped
    <2>3. Len(rows) = t /\ \A k \in 1 .. t : rows[k] = ExactRow(k)
      BY <2>1 DEF RowsAgree
    <2>4. /\ Len(rows') = t + 1 /\ rows'[t + 1] = ExactRow(t + 1)
          /\ \A k \in 1 .. t : rows'[k] = ExactRow(k)
      BY <1>0, <2>1, <2>2, <2>3
    <2>5. \A k \in 1 .. t' : rows'[k] = ExactRow(k)
      BY <1>0, <2>1, <2>4
    <2>6. RowsAgree'
      BY <2>1, <2>4, <2>5, AgreesFrame DEF RowsAgree
    <2> QED
      BY <1>9, <2>1, <2>6 DEF Listing
  <1>13. CASE Report
    <2>1. /\ at = "track" /\ at' \in {"report", "exception"} /\ RowsAgree
          /\ UNCHANGED <<nTracks, nSelected, s, t, perTrack, rows, tracks, selected, trackOf, summary>>
      BY <1>13 DEF Report, Agrees, Listing, World, project, locals
    <2>2. RowsAgree'
      BY <2>1, AgreesFrame DEF RowsAgree
    <2> QED
      BY <1>9, <2>1, <2>2 DEF Listing
  <1> QED
    BY <1>1, <1>2, <1>3, <1>4, <1>6, <1>7, <1>8, <1>10, <1>11, <1>12, <1>13 DEF GetState


ReaderInv == ProjectInv /\ ProgressInv /\ CountedOnce /\ RowsOnce /\ QuietlyAgrees

LEMMA ReaderStarts == Init => ReaderInv
  <1> SUFFICES ASSUME Init PROVE ReaderInv
    OBVIOUS
  <1>1. ProjectInv
    BY DEF Init, ProjectInv
  <1>2. at = "idle" /\ edits = 0 /\ rows = <<>> /\ nTracks = 0 /\ nSelected = 0 /\ s = 0 /\ t = 0
    BY DEF Init, NoLocals
  <1>3. ProgressInv
    BY <1>2 DEF ProgressInv, Places, TallyTyped, RowsTyped, Counting, Listing
  <1>4. CountedOnce /\ RowsOnce
    BY <1>2 DEF CountedOnce, RowsOnce, Counting, Listing
  <1>5. QuietlyAgrees
    BY <1>2 DEF QuietlyAgrees, Agrees, Counting, Listing
  <1> QED
    BY <1>1, <1>3, <1>4, <1>5 DEF ReaderInv

LEMMA QuietStep ==
  ProjectInv /\ ProgressInv /\ QuietlyAgrees /\ [Next]_vars => QuietlyAgrees'
  <1> SUFFICES ASSUME ProjectInv, ProgressInv, QuietlyAgrees, [Next]_vars, edits' = 0
               PROVE  Agrees'
    BY DEF QuietlyAgrees
  <1>1. ASSUME at' = "idle"
        PROVE  Agrees'
    BY <1>1 DEF Agrees, Counting, Listing
  <1>2. ASSUME UNCHANGED <<at, nTracks, nSelected, s, t, pointer, perTrack, rows, summary,
                           tracks, selected, trackOf, edits>>
        PROVE  Agrees'
    <2>1. Agrees
      BY <1>2 DEF QuietlyAgrees
    <2>2. TallyAgrees' = TallyAgrees
      BY <1>2 DEF TallyAgrees, OnTrackSoFar
    <2>3. RowsAgree' = RowsAgree
      BY <1>2, AgreesFrame DEF RowsAgree
    <2> QED
      BY <1>2, <2>1, <2>2, <2>3 DEF Agrees
  <1>3. CASE GetState
    <2>1. edits' = edits \/ at' = "idle"
      BY <1>3 DEF GetState, CopyPointers, CountTracks, CountSelectedItems, GetItem, GetItemTrack,
           Match, NoMatch, ItemsCounted, GetTrack, AddRow, Report, Return, World
    <2> QED
      BY <1>1, <1>3, <2>1, AgreesStep DEF QuietlyAgrees
  <1>4. CASE Environment
    <2>1. edits' # edits + 1
      BY DEF ProgressInv
    <2> QED
      BY <1>1, <1>2, <1>4, <2>1, EnvironmentStep
  <1>5. CASE UNCHANGED vars
    BY <1>2, <1>5 DEF vars, project, locals
  <1> QED
    BY <1>3, <1>4, <1>5 DEF Next

LEMMA ReaderInvariant == Spec => []ReaderInv
  <1>1. ReaderInv /\ [Next]_vars => ReaderInv'
    BY ProjectStep, ProgressStep, CountedOnceStep, RowsOnceStep, QuietStep
       DEF ReaderInv, ProgressInv
  <1> QED
    BY <1>1, ReaderStarts, PTL DEF Spec

\* Whatever is edited while get_state runs, it counts no selected item twice.
THEOREM CountsAreOnce == Spec => []CountsFitSelection
  <1>1. ReaderInv => CountsFitSelection
    <2> SUFFICES ASSUME ReaderInv, at = "report"
                 PROVE  \E rowOf \in [1 .. nSelected -> 0 .. Len(rows)] :
                          \A k \in 1 .. Len(rows) :
                            rows[k].selected_item_count
                              = Cardinality({i \in 1 .. nSelected : rowOf[i] = k})
      BY DEF CountsFitSelection
    <2>1. s = nSelected /\ t = nTracks /\ nTracks \in Nat /\ rows \in Seq(RowsOfTracks)
      BY DEF ReaderInv, ProgressInv, Places, RowsTyped, Listing
    <2>2. /\ \A k \in 1 .. Len(rows) : /\ rows[k].id < t
                                       /\ rows[k].selected_item_count = perTrack[rows[k].id]
          /\ \A k, l \in 1 .. Len(rows) : rows[k].id = rows[l].id => k = l
      BY DEF ReaderInv, RowsOnce, Listing
    <2>3. PICK trackIs \in [1 .. nSelected -> Int] :
            \A j \in 0 .. nTracks - 1 :
              perTrack[j] = Cardinality({i \in 1 .. nSelected : trackIs[i] = j})
      BY <2>1 DEF ReaderInv, CountedOnce, Tally, Listing
    <2> DEFINE n == Len(rows)
               Of(i, k) == rows[k].id = trackIs[i]
               rowOf == [i \in 1 .. nSelected |->
                           IF \E k \in 1 .. n : Of(i, k)
                             THEN CHOOSE k \in 1 .. n : Of(i, k) ELSE 0]
    <2>4. n \in Nat
      BY <2>1
    <2>5. ASSUME NEW i \in 1 .. nSelected
          PROVE  /\ rowOf[i] \in 0 .. n
                 /\ \A k \in 1 .. n : rowOf[i] = k <=> rows[k].id = trackIs[i]
      <3>1. CASE \E k \in 1 .. n : Of(i, k)
        <4>1. rowOf[i] \in 1 .. n /\ rows[rowOf[i]].id = trackIs[i]
          BY <3>1
        <4> HIDE DEF rowOf, n
        <4>2. rowOf[i] \in 0 .. n
          BY <2>4, <4>1
        <4> QED
          BY <2>2, <4>1, <4>2 DEF n
      <3>2. CASE ~ \E k \in 1 .. n : Of(i, k)
        <4>1. rowOf[i] = 0
          BY <3>2
        <4> HIDE DEF rowOf, n
        <4> QED
          BY <2>4, <3>2, <4>1
      <3> QED
        BY <3>1, <3>2
    <2>6. rowOf \in [1 .. nSelected -> 0 .. n]
      BY <2>5
    <2> HIDE DEF rowOf
    <2>7. ASSUME NEW k \in 1 .. n
          PROVE  rows[k].selected_item_count = Cardinality({i \in 1 .. nSelected : rowOf[i] = k})
      <3>1. rows[k].id \in 0 .. nTracks - 1
        BY <2>1, <2>2, RowIds
      <3>2. {i \in 1 .. nSelected : rowOf[i] = k} = {i \in 1 .. nSelected : trackIs[i] = rows[k].id}
        BY <2>5
      <3> QED
        BY <2>2, <2>3, <3>1, <3>2
    <2> QED
      BY <2>6, <2>7
  <1> QED
    BY <1>1, ReaderInvariant, PTL

\* When nobody edits while get_state runs, its report is the project.
THEOREM QuietReports == Spec => []QuietReportIsExact
  <1>1. ReaderInv => QuietReportIsExact
    <2> SUFFICES ASSUME ReaderInv, at = "report", edits = 0
                 PROVE  /\ rows = [i \in 1 .. Len(tracks) |-> ExactRow(i)]
                        /\ nSelected = Len(selected)
      BY DEF QuietReportIsExact
    <2>1. Agrees /\ at \in Listing /\ t = nTracks /\ rows \in Seq(RowsOfTracks)
      BY DEF ReaderInv, QuietlyAgrees, ProgressInv, Places, RowsTyped, Listing
    <2>2. nSelected = Len(selected) /\ nTracks = Len(tracks) /\ RowsAgree
      BY <2>1 DEF Agrees
    <2>3. Len(rows) = Len(tracks) /\ \A k \in 1 .. Len(tracks) : rows[k] = ExactRow(k)
      BY <2>1, <2>2 DEF RowsAgree
    <2>4. rows = [i \in 1 .. Len(rows) |-> rows[i]]
      BY <2>1
    <2>5. rows = [i \in 1 .. Len(tracks) |-> ExactRow(i)]
      BY <2>3, <2>4
    <2> QED
      BY <2>2, <2>5
  <1> QED
    BY <1>1, ReaderInvariant, PTL

=============================================================================
