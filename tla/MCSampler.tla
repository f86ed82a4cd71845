------------------------------ MODULE MCSampler ------------------------------
(***************************************************************************)
(* Sampler with the browser, and with an export after no sample, after two, *)
(* or at the deadline only.                                                *)
(***************************************************************************)
EXTENDS Sampler

MCCli == [export : {FALSE}, seconds : {FALSE}, samples : {NoSamples}]
         \cup [export : {TRUE}, seconds : BOOLEAN, samples : {0, 2, NoSamples}]
=============================================================================
