---------------------------- MODULE MCGreylistLog ----------------------------
(***************************************************************************)
(* The greylist and the request log it is fed from, in one run: `part`     *)
(* tells which of the two is looked at.  The greylist takes the scores for *)
(* given; they share no variable, so their steps commute and are not       *)
(* interleaved.                                                            *)
(***************************************************************************)
EXTENDS MCGreylist, RequestLog

CONSTANTS visitor, lan, browser, script

R(a, p, s, ua, ref, t, ms) ==
    [addr |-> a, path |-> p, status |-> s, agent |-> ua, referer |-> ref, tolled |-> t, ms |-> ms]

FewRequests ==
    {R(visitor, "page", 429, browser, "direct", TRUE, 1),
     R(visitor, "probe", 404, browser, "noise", FALSE, 1),
     R(visitor, "dead", 404, script, "direct", FALSE, 3),
     R(lan, "diagram", 200, browser, "external", FALSE, 3),
     R(visitor, "bytes", 200, browser, "internal", FALSE, 1)}
OnlyVisitor == {visitor}
BytePaths   == {"bytes"}
StylePaths  == {"style"}
DrawnPaths  == {"diagram"}
ProbePaths  == {"probe"}
TwoRulesets == {{script}, {script, browser}}

VARIABLE part

LogsInit == /\ part \in {"greylist", "log"} /\ Init /\ LogInit
            /\ part = "greylist" => logged = {} /\ rules = {script}
            /\ part = "log" => log = [ip \in IPs |-> "quiet"]
LogsNext == /\ UNCHANGED part
            /\ \/ part = "greylist" /\ Next /\ UNCHANGED logVars
               \/ part = "log" /\ LogNext /\ UNCHANGED vars
LogsSpec == LogsInit /\ [][LogsNext]_<<vars, logVars, part>>

=============================================================================
