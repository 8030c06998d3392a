SPECIFICATION Spec
PROPERTY RequestsAreTunnelled
