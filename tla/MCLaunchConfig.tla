-------------------------- MODULE MCLaunchConfig --------------------------
(***************************************************************************)
(* LaunchConfig for TLC: one property of each kind the code tells apart.   *)
(***************************************************************************)
EXTENDS LaunchConfig

MCNames == <<"v3", "v4", "v3">>

\* The three properties that a request changes after the layers were merged,
\* and one the server sets itself.
MCKeys == {AppName, Archives, WorkerPython, "spark.extraListeners"}
MCJoinedKeys == {Archives, WorkerPython}

\* Lists with the first, the last or no item local, and a blank one.
MCUserValues ==
    {<<"empty">>, <<"remote">>, <<"local">>, <<"remote", "file">>, <<"empty", "remote">>}
=============================================================================
