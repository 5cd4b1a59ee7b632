------------------------------ MODULE MCCronSchedule ------------------------------
EXTENDS CronSchedule

Every == {}
Each(s) == [all |-> TRUE, from |-> 0, to |-> 0, step |-> s]
Span(a, b, s) == [all |-> FALSE, from |-> a, to |-> b, step |-> s]
One(a) == Span(a, a, 1)

Expression(m, h, d, w) == [minute |-> m, hour |-> h, day |-> d, week |-> w]

\* One field or two restricted, by a value, a list, a range or a step; both days;
\* and three that make no sense.
MCExpressions ==
    {Expression(Every, Every, Every, Every),
     Expression({One(1)}, Every, Every, Every),
     Expression({One(0)}, {One(2)}, Every, Every),
     Expression({Each(2)}, {One(1)}, Every, Every),
     Expression({One(1)}, {Span(1, 2, 1)}, {One(2)}, Every),
     Expression({One(0)}, {Span(0, 2, 2)}, Every, {One(2)}),
     Expression({One(2)}, {One(1)}, {One(1)}, {One(3)}),
     Expression({One(0), One(2)}, Every, {Each(1)}, {One(1)}),
     Expression({One(3)}, Every, Every, Every),
     Expression(Every, {Span(2, 1, 1)}, Every, Every),
     Expression(Every, Every, {Each(0)}, Every)}
===================================================================================
