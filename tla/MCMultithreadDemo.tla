--------------------------- MODULE MCMultithreadDemo ---------------------------
(***************************************************************************)
(* Small instances of MultithreadDemo: the level of the program, in units  *)
(* of 1/180 pixel and sixty ticks a second, in which its lengths, speeds   *)
(* and gravity are whole.  The player starts a hair above the floor.       *)
(***************************************************************************)
EXTENDS MultithreadDemo

Pixels(x, y) == P!Vec(180 * x, 180 * y)

MCPlayerSize   == Pixels(64, 64)
MCFloorAt      == Pixels(0, 1000)
MCFloorSize    == Pixels(1920, 80)
MCPlatformAt   == Pixels(832, 700)
MCPlatformSize == Pixels(256, 32)
MCSpawnAt      == P!Plus(Pixels(200, 936), P!Vec(0, -20))

\* From where the program starts it there is no more to fall than a jump gives, so that
\* what LevelAssumption says of the player near the floor is true of that start too.
ASSUME ProgramSpawn ==
    LET spawn == Pixels(200, 800)
    IN  spawn.y <= Standing /\ Energy(spawn.y, 0) <= MostEnergy

\* 600 pixels times sin(n / 60)
MCSwing(n) == CASE n = 0 -> 0 [] n = 1 -> 1800 [] n = 2 -> 3599 [] OTHER -> 5398

MCHolds     == {{}, {KeySpace, KeyP}}
=============================================================================
