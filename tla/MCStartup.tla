------------------------------- MODULE MCStartup -------------------------------
(* The configurations tried: a base one with the parts of it varied one at a time. *)
EXTENDS Startup

MCGeneratedNames == <<"a", "b", "c", "d">>

Base == [
  directory |-> TRUE, maxMemory |-> 0, unbounded |-> FALSE,
  traces |-> [count |-> 2, avg |-> 3, stdDev |-> 0, high |-> FALSE, highCount |-> 0, highSpans |-> 0,
              services |-> 2, names |-> <<>>, single |-> FALSE, ingress |-> "", namespaces |-> <<>>,
              assigned |-> <<>>, resolved |-> <<>>, fatMin |-> 0, fatMax |-> 0, valueBytes |-> 0,
              customCount |-> 0,
              rootless |-> 0, lateRoot |-> FALSE, latePercent |-> 0, delayMs |-> 0],
  metrics |-> [count |-> 2, min |-> 1, max |-> 3, default |-> 0],
  logs |-> [count |-> 5, http |-> 40, app |-> 35, sys |-> 25, services |-> 1]]

Directories == {[Base EXCEPT !.directory = FALSE]}

Shapes == {[Base EXCEPT !.traces.count = n, !.traces.avg = a, !.traces.stdDev = d, !.traces.high = h,
                        !.traces.highCount = c, !.traces.highSpans = s, !.metrics.count = 0] :
             n \in {-1, 0, 2}, a \in {0, 1, 3, 20}, d \in {-1, 0, 1}, h \in BOOLEAN, c \in {-1, 0, 2}, s \in {-1, 0, 4, 30}}

Fat == {[Base EXCEPT !.traces.fatMin = l, !.traces.fatMax = u, !.traces.valueBytes = v,
                     !.maxMemory = m, !.unbounded = b, !.metrics.count = 0] :
          l \in -1..2, u \in 0..2, v \in {-1, 0, 100}, m \in {0, 16000, 16800}, b \in BOOLEAN}

Customs == {[Base EXCEPT !.traces.customCount = n, !.traces.count = c, !.traces.fatMax = u, !.traces.valueBytes = 100] :
              n \in {-1, 0, 3}, c \in {0, 2}, u \in {0, 2}}

NameLists == {<<>>, <<"a", "b">>, <<"a", "b", "c", "d">>, <<"a", "a">>, <<"d", "a", "c", "b">>}
Assignments == {<<>>, "a" :> "x", "b" :> "y", ("a" :> "y") @@ ("c" :> "y")}
Services == {[Base EXCEPT !.traces.names = l, !.traces.services = n, !.traces.namespaces = s,
                          !.traces.assigned = a, !.traces.single = i] :
               l \in NameLists, n \in {0, 2, 3, 4}, s \in {<<>>, <<"x", "y">>, <<"x", "y", "z">>, <<"x", "x", "y">>},
               a \in Assignments, i \in BOOLEAN}

Roots == {[Base EXCEPT !.traces.rootless = r, !.traces.lateRoot = l, !.traces.latePercent = p, !.traces.delayMs = d] :
            r \in {-1, 50, 101}, l \in BOOLEAN, p \in {-1, 50, 101}, d \in {0, 5}}

Selected == {[Base EXCEPT !.traces.count = 0, !.metrics.count = n] : n \in -1..201}

Series == {[Base EXCEPT !.traces.count = 0, !.metrics = [count |-> n, min |-> l, max |-> u, default |-> d]] :
             n \in {1, 2}, l \in 0..3, u \in 0..3, d \in {0, 2, 5}}

Defaults == {[Base EXCEPT !.traces.count = 0, !.logs.count = 0,
                          !.metrics = [count |-> n, min |-> l, max |-> l, default |-> d]] :
               n \in 0..20, l \in {1, 400}, d \in {0, 1, 300, 500}}

Percentages == {-10, 0, 33, 34, 50, 100, 110}
Records == {[Base EXCEPT !.traces.count = 0, !.metrics.count = 0,
                         !.logs = [count |-> n, http |-> h, app |-> a, sys |-> 100 - h - a, services |-> s]] :
              n \in {-1, 0, 1, 7, 10}, h \in Percentages, a \in Percentages, s \in -1..1}
           \cup {[Base EXCEPT !.logs.sys = 26]}

Volumes == {[Base EXCEPT !.traces.count = t, !.metrics.count = m, !.logs.count = l, !.metrics.max = 1] :
              t \in {0, 1, 10}, m \in {0, 2, 40}, l \in {0, 1, 60}}

--------------------------------------------------------------------------------
Plain == [traces |-> "file", metrics |-> "file", logs |-> "file", endpoint |-> TRUE, rate |-> 1,
          concurrency |-> 4, multiplier |-> 1, duration |-> "", jitter |-> 0, backdate |-> 0,
          batch |-> 0, drainTimeout |-> "", maxPending |-> 0]

Inputs3 == {[Plain EXCEPT !.traces = t, !.metrics = m, !.logs = l, !.batch = b] :
              t \in {"", "file", "null"}, m \in {"", "file", "null"}, l \in {"", "file", "null"}, b \in {-1, 0, 2}}

Concurrencies == {[Plain EXCEPT !.traces = IF t THEN "file" ELSE "", !.metrics = IF m THEN "file" ELSE "",
                                !.logs = IF l THEN "file" ELSE "", !.concurrency = n] :
                    t \in BOOLEAN, m \in BOOLEAN, l \in BOOLEAN, n \in 0..7}

Settings == {[Plain EXCEPT !.rate = r, !.endpoint = e, !.multiplier = m, !.duration = d, !.drainTimeout = o] :
               r \in {0, 1}, e \in BOOLEAN, m \in {-1, 0}, d \in {"", "0", "bad", "60"}, o \in {"", "bad", "5"}}
            \cup {[Plain EXCEPT !.jitter = -1], [Plain EXCEPT !.backdate = -1], [Plain EXCEPT !.maxPending = -1]}

MCConfigurations ==
  [gen : Directories \cup Shapes \cup Fat \cup Customs \cup Services \cup Roots \cup Selected \cup Series
         \cup Defaults \cup Records,
   send : {Plain, [Plain EXCEPT !.traces = "", !.metrics = ""]}]
  \cup [gen : Volumes, send : Inputs3 \cup Concurrencies \cup Settings]
================================================================================
