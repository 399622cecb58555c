---------------------------- MODULE MCAggregator -----------------------------
(* Four events: two workloads whose names render to the same key, an agent *)
(* on another host with the same pid and no power reading, and a second    *)
(* process.                                                                *)
EXTENDS Aggregator

Event(pid, workload, model, agent, gpuIndex, watts, tokens) ==
  [pid |-> pid, workload |-> workload, model |-> model, agent |-> agent,
   gpuIndex |-> gpuIndex, cpu |-> watts[1], dram |-> watts[2], gpu |-> watts[3],
   tokens |-> tokens]

MCEvents ==
  {Event(1, <<"api">>, <<"gpt", "4">>, "a", 0, <<1, 0, 2>>, 2),
   Event(1, <<"api", "gpt">>, <<"4">>, "a", 0, <<3, 1, 0>>, 0),
   Event(1, <<"api">>, <<"gpt", "4">>, "b", 1, <<0, 0, 0>>, 1),
   Event(2, <<"api">>, <<"gpt", "4">>, "a", 0, <<3, 1, 0>>, 1)}

MCScale == 2 * 5^MaxEvents

==============================================================================
