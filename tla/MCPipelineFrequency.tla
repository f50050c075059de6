------------------------- MODULE MCPipelineFrequency -------------------------
EXTENDS PipelineFrequency
StageValue == [r \in 0..1 |-> r]
Instruction(name, frequency) == [name |-> name, frequency |-> frequency]
ScheduleValue ==
  [s \in 0..1 |-> IF s = 0 THEN <<Instruction("forward", 2), Instruction("backward", 0)>>
                 ELSE <<Instruction("forward", 1)>>]
=============================================================================
