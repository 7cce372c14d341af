-------------------------------- MODULE MC_TCP --------------------------------
EXTENDS TCP

\* Two socket structs: a listener and the child it spawns, or a listener
\* and a socket the application connects, closes, rebinds or listens on.
IdsMC == {1, 2}

====
