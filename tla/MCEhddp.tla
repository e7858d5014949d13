------------------------------ MODULE MCEhddp ------------------------------
\* Small networks for the exploration protocol.  Switch 1 is Root.
EXTENDS Ehddp, TLC

\* Switch 2 behind a ring of three, of which one has a host.
Hybrid == 1 :> <<3>> @@ 2 :> <<4>> @@ 3 :> <<1, 4, 5>> @@ 4 :> <<3, 5, 2>> @@ 5 :> <<3, 4, HOST>>

\* Root in a ring of three, of which one has a host and one switch 2 behind it.
RootRing == 1 :> <<3, 4>> @@ 2 :> <<4>> @@ 3 :> <<1, 4, HOST>> @@ 4 :> <<1, 3, 2>>

\* A triangle with a host.
HostTriangle == 1 :> <<2, 3>> @@ 2 :> <<1, 3>> @@ 3 :> <<1, 2, HOST>>

\* A line of three.
Line == 1 :> <<2>> @@ 2 :> <<1, 3>> @@ 3 :> <<2>>

\* Explorations get through two of them.
ASSUME Ports \in {RootRing, Hybrid} => Explorable
=============================================================================
