----------------------------- MODULE MCGameFlow -----------------------------
EXTENDS GameFlow

CONSTANTS a, b

\* A new game and a saved one.
MCSaves ==
    {<<>>,
     <<[color |-> "B", vertex |-> a], [color |-> "W", vertex |-> Pass]>>}
=============================================================================
