--------------------------- MODULE MCPagedScheduler ---------------------------
(***************************************************************************)
(* Small instances of the Python scheduler.  Pages of one token make them  *)
(* scarce: the pool is too small for two requests that run to their limit, *)
(* so requests are evicted, some more than once; the longer prompts need   *)
(* several chunks; <<4, 3>> runs past max_seq_len, <<6, 1>> has a prompt   *)
(* larger than the pool.                                                   *)
(***************************************************************************)
EXTENDS PagedSchedulerProperties

MCShapes      == {<<1, 4>>, <<2, 3>>, <<4, 3>>, <<6, 1>>}
MCLiveShapes  == {<<1, 4>>, <<3, 2>>}
MCOrderShapes == {<<1, 2>>, <<3, 2>>}
MCNone        == {}
MCEarly       == {"early"}
MCLate        == {"late"}

=============================================================================
