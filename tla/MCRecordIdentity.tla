-------------------------- MODULE MCRecordIdentity --------------------------
(***************************************************************************)
(* Two finishes that look alike, one with a UUID of its own and one        *)
(* without, and two upstream runs.  GlobalAPI later corrects the first     *)
(* one's time; the second one's server changes hands.                      *)
(***************************************************************************)
EXTENDS RecordIdentity, TLC

CONSTANTS g1, g2, r1, s1, s2, u1, u2, u3

MCIds    == {1, 2}
MCUuids  == {u1, u2, u3}
MCSlots  == {s1, s2}
MCGroups == {g1, g2}
MCRuns   == {r1}
MCDelays == {0}

finish(s, u, g, t, at) ==
    [slot |-> s, uuid |-> u, group |-> g, run |-> r1, time |-> t, at |-> at, done |-> at]
payload(x, g, t, at) ==
    [id |-> x, source |-> g, run |-> r1, time |-> t, at |-> at]

MCFinishes == {finish(s1, u1, g1, 40000, 100),
               finish(s2, None, g1, 40001, 104)}

MCPayloads == {payload(1, g1, 40000, 101),
               payload(1, g1, 40500, 101),
               payload(2, g1, 40001, 108)}

(* The second finish comes from another group's server, whose plugin may    *)
(* claim an upstream run that is not its own.                               *)
StrangerFinishes == {finish(s1, u1, g1, 40000, 100),
                     finish(s2, None, g2, 40000, 100)}

Generated == Permutations({u2, u3})
=============================================================================
