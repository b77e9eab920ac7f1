--------------------------- MODULE MCEngineArtifact ---------------------------
(* Instances of EngineAdapter and EngineArtifact for TLC. *)
EXTENDS EngineArtifact

CONSTANTS Prices, Volumes

Whole(n) == [num |-> n, den |-> 1]
Half == [num |-> 1, den |-> 2]
ThreeHalves == [num |-> 3, den |-> 2]

MCBars == [open : Prices, close : Prices, volume : Volumes]

Manifest(capital, fraction, increment, warmUp) ==
    [capital |-> capital, fraction |-> fraction, increment |-> increment,
     eligibleAfter |-> warmUp]

\* The whole cash, which an order may cost exactly, half of it after a warm-up,
\* an increment that is not an integer, which the manifest accepts, and a
\* capital that buys nothing.
MCManifests ==
    {Manifest(6, Whole(1), Whole(1), 1), Manifest(7, Half, Whole(1), 2),
     Manifest(7, Whole(1), ThreeHalves, 1), Manifest(1, Whole(1), Whole(1), 1)}
================================================================================
