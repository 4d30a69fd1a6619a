------------------------- MODULE MCBenchmarkRunners -------------------------
EXTENDS BenchmarkRunners

\* Two stages, of one event and of two.
MCStages == << <<"one">>, <<"two", "three">> >>
MCLatencyEvents == <<"one", "two">>
=============================================================================
