------------------------------ MODULE MC_Epoch ------------------------------
(***************************************************************************)
(* Threads and what they do, for the model checker.                        *)
(***************************************************************************)
EXTENDS Epoch, TLC

CONSTANTS a, b, c
MCThreads == {a, b, c}

(* A writer that exits while others wait and read; two threads that walk   *)
(* the list, one of them for three collections or both for one, while a    *)
(* third exits; readers that arrive late; two threads that wait for each   *)
(* other.                                                                  *)
MCScripts ==
  { a :> <<"update">> @@ b :> <<"sync", "stay">> @@ c :> <<"read", "stay">>,
    a :> <<"sync", "stay">> @@ b :> <<"update", "stay">> @@ c :> <<>>,
    a :> <<"update", "read", "stay">> @@ b :> <<"update", "read", "stay">>
      @@ c :> <<>>,
    a :> <<"update", "sync">> @@ b :> <<"read", "rcuRead">>,
    a :> <<"update", "sync">> @@ b :> <<"update", "read">>,
    a :> <<"sync">> @@ b :> <<"sync">> }
=============================================================================
