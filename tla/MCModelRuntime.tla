---------------------------- MODULE MCModelRuntime ----------------------------
(***************************************************************************)
(* Configurations of the model runtime.  The accepted ones either refresh  *)
(* the page table on every call or hand the decoder whole buffers, and     *)
(* either keep no metadata from step to step or change the compute stream  *)
(* only when the work of the step before is done.  With                    *)
(* [Plain EXCEPT !.streams = "any"] besides, KernelsReadTheirBatch fails.  *)
(***************************************************************************)
EXTENDS ModelRuntime

Plain == [packed |-> FALSE, overlap |-> TRUE, graphs |-> FALSE, deferred |-> FALSE,
          clone |-> FALSE, tableCache |-> FALSE, padding |-> FALSE, reuse |-> TRUE,
          streams |-> "one"]

MCConfigs ==
  {Plain,
   [Plain EXCEPT !.reuse = FALSE, !.streams = "any"],
   [Plain EXCEPT !.streams = "synchronized"],
   [Plain EXCEPT !.graphs = TRUE, !.overlap = FALSE, !.padding = TRUE],
   [Plain EXCEPT !.graphs = TRUE, !.packed = TRUE, !.tableCache = TRUE],
   [Plain EXCEPT !.graphs = TRUE, !.deferred = TRUE, !.clone = TRUE],
   [Plain EXCEPT !.graphs = TRUE, !.deferred = TRUE, !.tableCache = TRUE]}

\* The cached page table together with padded batches.
MCPaddedTables ==
  {[Plain EXCEPT !.graphs = TRUE, !.tableCache = TRUE, !.padding = TRUE]}

=============================================================================
