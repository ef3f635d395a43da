------------------------------ MODULE MCTimers ------------------------------
(***************************************************************************)
(* What the site does by the clock, in one run: `part` tells which is      *)
(* looked at, the scan of the dead links, the probe of one link, the       *)
(* renewal of the certificate or the snapshots of the database.  The parts *)
(* share no variable, so their steps commute and are not interleaved, and  *)
(* what another part starts from makes no difference.                      *)
(***************************************************************************)
EXTENDS MCDeadLinks, Certificates, Backups, Probes

OneSlug == {"one"}
OneMedia == {"m"}
FourIds == 1 .. 4

\* A link of every kind that the resolver or the router tells apart.
Rooted(p) == [shape |-> "rooted", host |-> "none", path |-> p]
SomeLinks ==
    {Rooted(p) : p \in {<<"blog", "one">>, <<"blog", "one", "one">>, <<"pages", "one">>,
                        <<"pages", "one", "one">>, <<"pages", "blog", "one">>,
                        <<"library", "audiobooks">>, <<"library", "x">>, <<"3d", "one">>,
                        <<"3d", "editor", "v", "js">>, <<"projects", "one">>, <<"projects">>,
                        <<"media", "m">>, <<"media", "embed", "m">>, <<"media", "file", "m">>}}
    \cup {[shape |-> "http", host |-> h, path |-> <<"blog", "one">>] :
            h \in {"site", "www", "other"}}
    \cup {[shape |-> "mailto", host |-> "none", path |-> <<>>]}

VARIABLE part

TimersInit ==
    /\ part \in {"links", "probe", "certificate", "backup"}
    /\ Init /\ CertInit /\ BackupInit /\ ProbeInit
    /\ part # "links" => \A p \in Pages : content[p] = {}
    /\ \/ remote = <<200, 200>>
       \/ part = "probe" /\ coming = NodeIds \ {BlogNode} /\ media = {}
    /\ part # "probe" => coming = NodeIds \ {BlogNode} /\ media = {}
TimersNext == /\ UNCHANGED part
              /\ \/ part = "links" /\ Next /\ UNCHANGED <<certVars, backupVars, probeVars>>
                 \/ part = "probe" /\ ProbeNext /\ UNCHANGED <<vars, certVars, backupVars>>
                 \/ part = "certificate" /\ CertNext /\ UNCHANGED <<vars, backupVars, probeVars>>
                 \/ part = "backup" /\ BackupNext /\ UNCHANGED <<vars, certVars, probeVars>>
TimersSpec == TimersInit /\ [][TimersNext]_<<vars, certVars, backupVars, probeVars, part>>

=============================================================================
