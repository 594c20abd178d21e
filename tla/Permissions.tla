----------------------------- MODULE Permissions -----------------------------
(***************************************************************************)
(* Access to location, camera and microphone: the session's permission     *)
(* hooks, the remembered decisions and their file, the queue of prompts in *)
(* the chrome renderer and the Settings section.  Requests to the renderer *)
(* and its answers travel as messages, in order.                           *)
(***************************************************************************)
EXTENDS Naturals, Sequences, FiniteSets

CONSTANTS
  Origins,   \* sites that ask
  Asks,      \* bound: requests, and changes made in Settings
  Clicks     \* bound: how often the checkbox is clicked and Settings used

ASSUME PermAssumption == Asks \in Nat /\ Clicks \in Nat

VARIABLES
  sites,    \* permissions.json and its copy in memory: origin -> capability -> decision
  pending,  \* the requests whose Electron callback waits
  outcome,  \* what each request's callback was called with
  asked,    \* PERMISSION_REQUESTED messages under way
  queue,    \* permissionQueue of the chrome; the first one is shown
  remember, \* the prompt's checkbox, which lives as long as a prompt is shown
  answers,  \* messages from the chrome under way
  section,  \* the decisions Settings > Permissions shows, while it is open
  clicks

permVars == <<sites, pending, outcome, asked, queue, remember, answers, section, clicks>>

Capabilities == {"geolocation", "camera", "microphone"}
Undecided == "undecided"
Decisions == {"granted", "denied"}

(* capabilitiesFor: "media" stands for what its media types say, or both.     *)
Requested == {{"geolocation"}, {"camera"}, {"microphone"}, {"camera", "microphone"}}

NoDecisions == [o \in Origins |-> [c \in Capabilities |-> Undecided]]
ClosedSection == [open |-> FALSE, list |-> NoDecisions]

(* setPermissionRequestHandler: all granted, one denied, or the user is asked. *)
AllGranted(origin, caps) == \A c \in caps : sites[origin][c] = "granted"
SomeDenied(origin, caps) == \E c \in caps : sites[origin][c] = "denied"

Settle(id, verdict) == outcome' = [outcome EXCEPT ![id] = verdict]

RequestPermission(origin, caps) ==
  /\ Len(outcome) < Asks
  /\ LET request == [id |-> Len(outcome) + 1, origin |-> origin, caps |-> caps] IN
       \/ /\ AllGranted(origin, caps)
          /\ outcome' = Append(outcome, "granted")
          /\ UNCHANGED <<pending, asked>>
       \/ /\ SomeDenied(origin, caps)
          /\ outcome' = Append(outcome, "refused")
          /\ UNCHANGED <<pending, asked>>
       \/ /\ ~AllGranted(origin, caps) /\ ~SomeDenied(origin, caps)
          /\ outcome' = Append(outcome, "waiting")
          /\ pending' = pending \cup {request}
          /\ asked' = Append(asked, request)
  /\ UNCHANGED <<sites, queue, remember, answers, section, clicks>>

(* Any other permission, and a page without an origin, is refused; the       *)
(* browser's own chrome may capture.                                         *)
RequestOther ==
  /\ Len(outcome) < Asks
  /\ \E verdict \in {"granted", "refused"} : outcome' = Append(outcome, verdict)
  /\ UNCHANGED <<sites, pending, asked, queue, remember, answers, section, clicks>>

-----------------------------------------------------------------------------
(* The chrome renderer.  AfterFirst is the queue without the answered prompt. *)
ShowPrompt ==
  /\ asked # <<>>
  /\ queue' = Append(queue, asked[1])
  /\ asked' = Tail(asked)
  /\ UNCHANGED <<sites, pending, outcome, remember, answers, section, clicks>>

ClickRemember ==
  /\ queue # <<>> /\ clicks < Clicks
  /\ remember' = ~remember
  /\ clicks' = clicks + 1
  /\ UNCHANGED <<sites, pending, outcome, asked, queue, answers, section>>

AfterOrigin(q) == SelectSeq(q, LAMBDA r : r.origin # q[1].origin)
AfterFirst(q) == Tail(q)

RespondToPermission(allow, keep) ==
  /\ queue # <<>>
  /\ answers' = Append(answers, [id |-> queue[1].id, allow |-> allow, remember |-> keep])
  /\ queue' = AfterFirst(queue)
  /\ remember' = (remember \/ queue' = <<>>)
  /\ UNCHANGED <<sites, pending, outcome, asked, section, clicks>>

Allow == RespondToPermission(TRUE, remember)
Block == RespondToPermission(FALSE, remember)
Dismiss == RespondToPermission(FALSE, FALSE)

(* resolvePermissionRequest: a request is answered once, and the answer kept  *)
(* for each capability if it is to be remembered.                            *)
Remembered(request, allow) ==
  [sites EXCEPT ![request.origin] = [c \in Capabilities |->
     IF c \in request.caps THEN (IF allow THEN "granted" ELSE "denied") ELSE @[c]]]

Resolve ==
  /\ answers # <<>>
  /\ LET a == answers[1]
         found == {r \in pending : r.id = a.id} IN
       \/ /\ found = {}
          /\ UNCHANGED <<pending, outcome, sites>>
       \/ \E request \in found :
            /\ pending' = pending \ {request}
            /\ Settle(a.id, IF a.allow THEN "granted" ELSE "refused")
            /\ sites' = IF a.remember THEN Remembered(request, a.allow) ELSE sites
  /\ answers' = Tail(answers)
  /\ UNCHANGED <<asked, queue, remember, section, clicks>>

(* Settings: it asks for the list when it opens, and each change made in it  *)
(* sends it the list anew; an answered prompt does not.                      *)
OpenSection ==
  /\ ~section.open /\ clicks < Clicks
  /\ section' = [open |-> TRUE, list |-> sites]
  /\ clicks' = clicks + 1
  /\ UNCHANGED <<sites, pending, outcome, asked, queue, remember, answers>>

CloseSection ==
  /\ section.open
  /\ section' = ClosedSection
  /\ UNCHANGED <<sites, pending, outcome, asked, queue, remember, answers, clicks>>

Change(next) ==
  /\ section.open /\ clicks < Clicks
  /\ sites' = next
  /\ section' = [section EXCEPT !.list = next]
  /\ clicks' = clicks + 1
  /\ UNCHANGED <<pending, outcome, asked, queue, remember, answers>>

(* A pill shows the decision it will flip, which may be an old one.          *)
Flip(origin, cap) ==
  /\ section.list[origin][cap] # Undecided
  /\ Change([sites EXCEPT ![origin][cap] =
       IF section.list[origin][cap] = "granted" THEN "denied" ELSE "granted"])

ResetOrigin(origin) ==
  /\ \E c \in Capabilities : section.list[origin][c] # Undecided
  /\ Change([sites EXCEPT ![origin] = NoDecisions[origin]])

PermInit ==
  /\ sites = NoDecisions /\ pending = {} /\ outcome = <<>> /\ asked = <<>> /\ queue = <<>>
  /\ remember = TRUE /\ answers = <<>> /\ section = ClosedSection /\ clicks = 0

PermNext ==
  \/ \E o \in Origins, caps \in Requested : RequestPermission(o, caps)
  \/ RequestOther \/ ShowPrompt \/ ClickRemember \/ Allow \/ Block \/ Dismiss \/ Resolve
  \/ OpenSection \/ CloseSection
  \/ \E o \in Origins : ResetOrigin(o) \/ \E c \in Capabilities : Flip(o, c)

PermSpec == PermInit /\ [][PermNext]_permVars

-----------------------------------------------------------------------------
PromptRequest == [id : 1..Asks, origin : Origins, caps : Requested]

PermTypeOK ==
  /\ sites \in [Origins -> [Capabilities -> Decisions \cup {Undecided}]]
  /\ pending \subseteq PromptRequest
  /\ outcome \in Seq({"waiting", "granted", "refused"})
  /\ asked \in Seq(PromptRequest) /\ queue \in Seq(PromptRequest)
  /\ remember \in BOOLEAN /\ clicks \in 0..Clicks
  /\ answers \in Seq([id : 1..Asks, allow : BOOLEAN, remember : BOOLEAN])

(* Nobody is left hanging and nothing is answered twice: every request that  *)
(* waits is in exactly one place between main and the user - asked for,      *)
(* shown, or answered - in the order the pages asked, and every other        *)
(* request has had its callback called.                                      *)
PromptsMatchPending ==
  LET line == [i \in DOMAIN answers |-> answers[i].id]
              \o [i \in DOMAIN queue |-> queue[i].id]
              \o [i \in DOMAIN asked |-> asked[i].id]
  IN  /\ \A i, j \in DOMAIN line : i < j => line[i] < line[j]
      /\ {line[i] : i \in DOMAIN line} = {r.id : r \in pending}
      /\ \A id \in DOMAIN outcome : (outcome[id] = "waiting") <=> \E r \in pending : r.id = id
=============================================================================
