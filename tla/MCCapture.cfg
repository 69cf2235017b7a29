CONSTANT MaxInterrupts = 2
SPECIFICATION CaptureSpec
INVARIANTS CaptureTypeOK LeftByCut ConsumersFirst ResponseHeard OneCapture
PROPERTY InterruptEnds
