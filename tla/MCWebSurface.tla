---- MODULE MCWebSurface ----
(***************************************************************************)
(* One session slot that remembers one mutation, two network modes.        *)
(***************************************************************************)
EXTENDS WebSurface

MCSlots == 1..1
MCContents == {<<"run", 0>>, <<"config", 0>>}
MCModes == {"AP_ONLY", "HOME_WIFI"}
====
