SPECIFICATION Spec
CONSTANTS
  Template <- MCTemplate
  MaxTraces = 4
  MaxSpansPerBatch = 3
  BatchSize = 2
  CheckEvery = 2
INVARIANTS TypeOK RequestsBounded DeliveredOnce PassComplete WholeTracesInOrder
           LateHandedOver NoNeedlessFlush
