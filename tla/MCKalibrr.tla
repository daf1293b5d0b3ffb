----------------------------- MODULE MCKalibrr -----------------------------
(* Instances of KalibrrScraper for TLC. *)
EXTENDS KalibrrScraper, TLC

\* k1 reports more jobs than it lists, so its walk runs past its end; k2
\* shares a job with it; k3 has nothing; k4 has more pages than are asked for.
MCKeywords == <<"k1", "k2", "k3", "k4">>
MCJobs == {"a", "b", "c", "d", "e", "f", "g", "h"}
MCPages ==
    "k1" :> << <<"a", "b">>, <<"c">> >> @@ "k2" :> << <<"c", "d">> >>
        @@ "k3" :> << >> @@ "k4" :> << <<"e">>, <<"f">>, <<"g">>, <<"h">> >>
MCCount == "k1" :> 9 @@ "k2" :> 2 @@ "k3" :> 0 @@ "k4" :> 4

\* For two goroutines one keyword of two pages is enough.
MCSharedKeywords == <<"k1">>
=============================================================================
