---------------------------- MODULE MCAutoForward ----------------------------
(* AutoForward with two groups to listen to and three targets, for TLC. *)
EXTENDS AutoForward

CONSTANTS desk, g1, g2, g3

MCGroup == {desk, g1, g2, g3}

MCInterval == {3}
MCLimit == {2}

Config(flag, image, interval, from, to) ==
    [transferFlag |-> flag, imageFlag |-> image, transferInterval |-> interval,
     vecFromGroup |-> from, vecToGroup |-> to]

\* Off; on with either list empty; on without images and with one target; on
\* with images and more targets than workers, with and without an interval.
MCConfigForward ==
    { Config(FALSE, TRUE, 2, {desk}, <<g1>>),
      Config(TRUE, TRUE, 2, {}, <<g1>>),
      Config(TRUE, TRUE, 2, {desk}, <<>>),
      Config(TRUE, FALSE, 2, {desk}, <<g1>>),
      Config(TRUE, TRUE, 2, {desk}, <<g1, g2, g3>>),
      Config(TRUE, TRUE, 0, {desk}, <<g1, g2, g3>>) }
=============================================================================
