------------------------------ MODULE MCLiveRun ------------------------------
(* One part of the run at a time. *)
EXTENDS LiveRun, TLC

CONSTANTS m1, m2

MCSlices == {"seat", "cards", "feed", "runs", "reading", "changes", "timeline", "charter", "news"}

Range12 == [from |-> 1, to |-> 2]
Range45 == [from |-> 4, to |-> 5]
Range24 == [from |-> 2, to |-> 4]
MCInquiries == [whose : {"self", "descendant"}, types : {{}, {"act"}}, limit : {1, 2}, ranges : {<<>>}]
               \cup [whose : {"cited"}, types : {{}, {"act"}}, limit : {1, 2},
                     ranges : {<<Range12, Range45>>, <<Range24>>, <<Range12, Range24>>}]

MCSeed == <<"x", "y">>

\* A prefix; the same with a dash and the first of a tag after it; and with no dash.
SlugPrefixes == {<<"c">>, <<"c", "-", "2">>, <<"c", "2">>}
Members == {Member(id, prefix, kind, extra) :
              id \in {"i", "j"}, prefix \in SlugPrefixes, kind \in {"worker", "bench", "human"},
              extra \in {"none", "route", "brief"}}
MCRosters == {<<m>> : m \in Members} \cup {<<m, n>> : m, n \in Members}
MCRunTags == {<<>>, <<"2">>, <<"2", "f">>, <<"f">>}
==============================================================================
