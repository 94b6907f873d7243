------------------------------ MODULE HttpApi ------------------------------
(***************************************************************************)
(* The routes of the host's HTTP server (HttpServer::register_routes in    *)
(* src/host/http_server.cpp): a pool thread reads a request, a handler     *)
(* answers it, and httplib's hooks fill in where no handler answered or    *)
(* one threw.  A text that goes into an answer must be UTF-8, or dumping   *)
(* the JSON throws.  The listing and the reference are seen through their  *)
(* results, do_write through what it answers after each test and whether   *)
(* its rename took place; refresh_now is composed from module Refresh.     *)
(* Other requests and users put artifacts in place and take them away.     *)
(***************************************************************************)
EXTENDS Refresh

VARIABLES
  ascii,     \* the texts of the host that are UTF-8: "base dir", "file names"
  target,    \* the path the save is for: "missing" or "present"
  request,   \* the request in service
  stage,     \* where its service is
  reply,     \* the response so far
  written,   \* what the writer did for it: "nothing", "created" or "replaced"
  mishaps    \* what went wrong while it was served (history)

api == <<target, request, stage, reply, written, mishaps>>
apiVars == <<refreshVars, ascii, api>>

\* What httplib refuses by itself, most of it before it looks for a route: an
\* oversized line, a head or a body it cannot read or a method it has no handlers
\* for, a malformed Range, a body too large or compressed, no usable descriptor.
Refusal ==
  [uri_too_long |-> "414", unreadable |-> "400", bad_range |-> "416",
   too_large |-> "413", encoded |-> "415", descriptor |-> "500"]
Flaws == {"uri_too_long", "unreadable", "bad_range", "too_large", "encoded", "descriptor"}

\* A body is read as JSON; a field is taken if it has the expected type.  The
\* query is the kind or the target.  "bytes" stands for text that is not UTF-8.
\* range: a well-formed Range header that lies beyond the answer.  Paths of
\* requests are ASCII, and every host's path but the base directory.
Bodies == {"empty", "malformed", "malformed bytes", "not an object", "object"}
Blank == [route |-> "health", flaw |-> "none", range |-> FALSE, body |-> "empty",
          name |-> "absent", overwrite |-> "absent", register |-> FALSE, query |-> ""]
Asking(route) ==
  {[Blank EXCEPT !.route = route, !.query = q] : q \in {"", "known", "unknown", "bytes"}}
WithoutRange ==
  [route : {"save"}, flaw : {"none"}, range : {FALSE}, body : Bodies,
   name : {"valid", "invalid", "absent"}, overwrite : {"true", "not boolean", "absent"},
   register : BOOLEAN, query : {""}]
  \cup {[Blank EXCEPT !.route = r] : r \in {"health", "refresh", "state", "none"}}
  \cup Asking("artifacts") \cup Asking("api-reference")
Requests ==
  WithoutRange \cup {[r EXCEPT !.range = TRUE] : r \in WithoutRange}
  \cup {[Blank EXCEPT !.route = "save", !.flaw = f] : f \in Flaws}

\* The statuses, "none" before one is set; error "": the body names none, "no
\* body": there is no body yet.
ClientErrors == {"400", "404", "409", "413", "414", "415", "416"}
ServerErrors == {"500", "501"}
IsError(status) == status \in ClientErrors \cup ServerErrors
NoReply == [status |-> "none", error |-> "no body"]
Reply(status, error) == [status |-> status, error |-> error]

ApiInit ==
  /\ RefreshInit
  /\ ascii \in SUBSET {"base dir", "file names"}
  /\ target = "missing"
  /\ request = Blank /\ stage = "idle" /\ reply = NoReply
  /\ written = "nothing" /\ mishaps = {}

\* set_content(out.dump()): the handler's answer, or an exception.
AnswerWith(r, isUtf8) ==
  IF isUtf8 THEN reply' = r /\ stage' = "handled"
  ELSE stage' = "thrown" /\ UNCHANGED reply

-----------------------------------------------------------------------------
Accept(r) ==
  /\ stage = "idle"
  /\ request' = r /\ stage' = "received"
  /\ UNCHANGED <<refreshVars, ascii, target, reply, written, mishaps>>

\* An answer of httplib's own has no body yet.
Refuse ==
  /\ stage = "received" /\ request.flaw # "none"
  /\ reply' = Reply(Refusal[request.flaw], "no body") /\ stage' = "handled"
  /\ UNCHANGED <<refreshVars, ascii, target, request, written, mishaps>>

NoRoute ==
  /\ stage = "received" /\ request.flaw = "none" /\ request.route = "none"
  /\ reply' = Reply("404", "no body") /\ stage' = "handled"
  /\ UNCHANGED <<refreshVars, ascii, target, request, written, mishaps>>

Dispatch ==
  /\ stage = "received" /\ request.flaw = "none" /\ request.route # "none"
  /\ stage' = request.route
  /\ UNCHANGED <<refreshVars, ascii, target, request, reply, written, mishaps>>

\* GET /v1/health, and /v1/state, which does not call get_state
FixedAnswer ==
  /\ \/ stage = "health" /\ reply' = Reply("200", "")
     \/ stage = "state" /\ reply' = Reply("501", "NOT_IMPLEMENTED")
  /\ stage' = "handled"
  /\ UNCHANGED <<refreshVars, ascii, target, request, written, mishaps>>

\* parse_json_body; the parser's message quotes what it last read.
SaveParse ==
  /\ stage = "save"
  /\ \/ request.body = "object" /\ stage' = "checking" /\ UNCHANGED reply
     \/ request.body # "object"
          /\ AnswerWith(Reply("400", "INVALID_JSON"), request.body # "malformed bytes")
  /\ UNCHANGED <<refreshVars, ascii, target, request, written, mishaps>>

\* extract_field gives "" for what is absent, which no name may be, and
\* parse_bool_default_false FALSE for all but true and false.
NameIsValid == request.name = "valid"
Overwrite_if_present == request.overwrite # "absent"
Overwrite == request.overwrite = "true"

\* The exceptions of weakly_canonical and absolute leave do_write.
FileSystemError == mishaps' = mishaps \cup {"file system error"} /\ stage' = "thrown"

\* The tests of do_write: the name, where the path leads (a link may lead out of
\* the folder), and exists, whose error counts as a path that is missing.
SaveCheck ==
  /\ stage = "checking"
  /\ \/ /\ reply' = Reply("400", "INVALID_NAME") /\ stage' = "handled"
        /\ UNCHANGED mishaps
     \/ NameIsValid /\ FileSystemError /\ UNCHANGED reply
     \/ /\ NameIsValid /\ target = "present" /\ ~Overwrite
        /\ AnswerWith(Reply("409", "FILE_EXISTS"), "base dir" \in ascii)
        /\ UNCHANGED mishaps
     \/ /\ NameIsValid /\ (target = "missing" \/ Overwrite)
        /\ stage' = "storing" /\ UNCHANGED <<reply, mishaps>>
     \/ /\ NameIsValid /\ target = "present" /\ ~Overwrite
        /\ stage' = "storing" /\ mishaps' = mishaps \cup {"exists failed"}
        /\ UNCHANGED reply
  /\ UNCHANGED <<refreshVars, ascii, target, request, written>>

\* atomic_write fails, with the path of its tmp file or the system's words for the
\* failed rename in its message; or it renames its file to the target.
SaveStore ==
  /\ stage = "storing"
  /\ \/ /\ \E tmpNamed \in BOOLEAN :
             AnswerWith(Reply("500", "WRITE_FAILED"), tmpNamed => "base dir" \in ascii)
        /\ UNCHANGED <<target, written>>
     \/ /\ written' = (IF target = "present" THEN "replaced" ELSE "created")
        /\ target' = "present"
        /\ stage' = "stored" /\ UNCHANGED reply
  /\ UNCHANGED <<refreshVars, ascii, request, mishaps>>

\* The path for the answer, which names it; save_lua may register the script.
SaveAnswer ==
  /\ stage = "stored"
  /\ \/ FileSystemError /\ UNCHANGED reply
     \/ /\ \/ AnswerWith(Reply("200", ""), "base dir" \in ascii)
           \/ request.register
                /\ AnswerWith(Reply("500", "REGISTER_FAILED"), "base dir" \in ascii)
        /\ UNCHANGED mishaps
  /\ UNCHANGED <<refreshVars, ascii, target, request, written>>

RefreshBegin ==
  /\ stage = "refresh" /\ CopyFns
  /\ stage' = "refreshing"
  /\ UNCHANGED <<ascii, target, request, reply, written, mishaps>>

RefreshGoesOn ==
  /\ stage = "refreshing" /\ RefreshSteps
  /\ UNCHANGED <<ascii, api>>

RefreshAnswers ==
  /\ stage = "refreshing" /\ RefreshReturns
  /\ reply' = Reply("200", "") /\ stage' = "handled"
  /\ UNCHANGED <<ascii, target, request, written, mishaps>>

\* An unknown kind is echoed; a listing has the names of what was found, if any.
ArtifactsAnswer ==
  /\ stage = "artifacts"
  /\ \/ request.query \in {"", "known"}
          /\ \E found \in BOOLEAN :
               AnswerWith(Reply("200", ""), found => ascii = {"base dir", "file names"})
     \/ request.query \in {"unknown", "bytes"}
          /\ AnswerWith(Reply("400", "INVALID_KIND"), request.query # "bytes")
  /\ UNCHANGED <<refreshVars, ascii, target, request, written, mishaps>>

\* lookup_api_reference, and the answer made of it
ApiReferenceAnswer ==
  /\ stage = "api-reference"
  /\ AnswerWith(CASE request.query = ""      -> Reply("400", "MISSING_TARGET")
                  [] request.query = "known" -> Reply("200", "")
                  [] OTHER                   -> Reply("400", "INVALID_TARGET"),
                request.query # "bytes")
  /\ UNCHANGED <<refreshVars, ascii, target, request, written, mishaps>>

\* The exception handler quotes the exception.  A path it cannot dump is an
\* exception nobody catches, which ends the process.
AnswerException ==
  /\ stage = "thrown"
  /\ \/ /\ "file system error" \notin mishaps \/ "base dir" \in ascii
        /\ reply' = Reply("500", "INTERNAL") /\ stage' = "handled"
     \/ /\ "file system error" \in mishaps /\ "base dir" \notin ascii
        /\ stage' = "ended" /\ UNCHANGED reply
  /\ UNCHANGED <<refreshVars, ascii, target, request, written, mishaps>>

\* A success whose text the range lies beyond becomes 416 without a body.
RangeChecked(r) == IF request.range /\ r.status = "200" THEN Reply("416", "no body") ELSE r

\* The error handler sees every error answer, and fills in those without a body.
FallBack_always(r) == IF IsError(r.status) THEN Reply(r.status, "NOT_FOUND") ELSE r
FallBack(r) ==
  IF IsError(r.status) /\ r.error = "no body" THEN Reply(r.status, "NOT_FOUND") ELSE r

\* The range of a request that a handler answered with an error is applied to the
\* error's text without a test: the text may be cut, or the process may end.
RangeApplies == request.range /\ IsError(reply.status) /\ reply.error # "no body"
Send ==
  /\ stage = "handled"
  /\ \/ reply' = FallBack(RangeChecked(reply)) /\ stage' = "sent"
     \/ RangeApplies /\ reply' = Reply(reply.status, "cut off") /\ stage' = "sent"
     \/ RangeApplies /\ stage' = "ended" /\ UNCHANGED reply
  /\ UNCHANGED <<refreshVars, ascii, target, request, written, mishaps>>

\* The next request, or REAPER started again
Done ==
  /\ stage \in {"sent", "ended"}
  /\ request' = Blank /\ stage' = "idle" /\ reply' = NoReply
  /\ written' = "nothing" /\ mishaps' = {}
  /\ UNCHANGED <<refreshVars, ascii, target>>

ServeStep ==
  \/ Refuse \/ NoRoute \/ Dispatch
  \/ FixedAnswer \/ SaveParse \/ SaveCheck \/ SaveStore \/ SaveAnswer
  \/ RefreshBegin \/ RefreshGoesOn \/ RefreshAnswers
  \/ ArtifactsAnswer \/ ApiReferenceAnswer
  \/ AnswerException \/ Send \/ Done

\* Another save of the same artifact lands, or a user removes it.
OthersChange ==
  /\ target' \in {"missing", "present"} \ {target}
  /\ mishaps' = mishaps \cup (IF stage = "storing" /\ target' = "present"
                                THEN {"another save landed"} ELSE {})
  /\ UNCHANGED <<refreshVars, ascii, request, stage, reply, written>>

ApiNext ==
  \/ \E r \in Requests : Accept(r)
  \/ ServeStep
  \/ OthersChange
  \/ stage # "ended" /\ Rebind /\ UNCHANGED <<ascii, api>>

ApiSpec == ApiInit /\ [][ApiNext]_apiVars

-----------------------------------------------------------------------------
(***************************************************************************)
(* Properties                                                              *)
(***************************************************************************)
Utf8Everywhere ==
  /\ ascii = {"base dir", "file names"}
  /\ request.query # "bytes" /\ request.body # "malformed bytes"

\* An error answer names its cause, or is one of httplib's own: the hooks leave a
\* handler's answer as it is, INTERNAL is kept for texts that are not UTF-8 and
\* for exceptions of the file system, and NOT_FOUND, whatever its status, for
\* what no handler answered, a range beyond an answer included
\* (http_server.cpp:327-351).  Only such a range cuts an error's text.
ErrorsNameTheirCause ==
  stage = "sent" =>
    /\ IsError(reply.status) <=> reply.error # ""
    /\ reply.error = "INTERNAL" => ~Utf8Everywhere \/ "file system error" \in mishaps
    /\ reply.error = "NOT_FOUND" =>
         request.route = "none" \/ request.flaw # "none" \/ reply.status = "416"
    /\ reply.error = "cut off" \/ reply.status = "416" =>
         request.range \/ request.flaw = "bad_range"

\* What a client may conclude from the answer to a save: 200 that its artifact is
\* in place; 4xx, but for the 416 of a range beyond the answer, that nothing was
\* written; where no text and no path of the file system failed and no range was
\* asked for, a written artifact answers 200 or REGISTER_FAILED; and nothing is
\* replaced unless overwrite was the JSON value true, the test for the target
\* failed, or another save landed after it (artifact_writer.cpp:73,107).
SaveAnswersHonestly ==
  stage = "sent" /\ request.route = "save" =>
    /\ reply.status = "200" => written # "nothing"
    /\ reply.status \in ClientErrors \ {"416"} => written = "nothing"
    /\ written # "nothing" /\ Utf8Everywhere
         /\ "file system error" \notin mishaps /\ ~request.range =>
         reply.status = "200" \/ reply.error = "REGISTER_FAILED"
    /\ written = "replaced" =>
         \/ request.overwrite = "true"
         \/ mishaps \cap {"exists failed", "another save landed"} # {}

=============================================================================
